---- MODULE Spec2Model ----
(***************************************************************************)
(* Model of the ApiWomenSecurityApp HTTP route handlers.                   *)
(*                                                                         *)
(* The program state is the hosted document store (one function from       *)
(* document id to document per collection), the authentication accounts,   *)
(* and, for the request handled last, the request, its response, the       *)
(* remote calls the handler made, and the store as it was before.          *)
(* ultimoCambio remembers, per person, the estado that the last successful *)
(* /desactivar-perfil or /activar-perfil request asked for, or the tipo of *)
(* the last successful /actualizar-ubicacion-seleccion request together    *)
(* with the selection stored when it answered.                             *)
(* Every action is one whole request handler.  A handler is a sequence of  *)
(* remote calls; the input `fail` names the call (1, 2, ...) that throws,  *)
(* 0 meaning that none does.                                               *)
(* The specifications of overlapping requests split a handler at its       *)
(* awaited store calls instead: enCurso holds, per request in flight, the  *)
(* await it has reached and the values it has read so far.                 *)
(***************************************************************************)
EXTENDS Integers, Sequences, FiniteSets, TLC

VARIABLES db, autoId, auth, req, res, calls, pre, ultimoCambio, enCurso

vars == <<db, autoId, auth, req, res, calls, pre, ultimoCambio, enCurso>>

(***************************************************************************)
(* Bounds                                                                  *)
(***************************************************************************)
MaxGrupos == 1
MaxMiembros == 2
MaxInvitaciones == 2
MaxDocs == 2
MaxAlertas == 1
MaxMensajes == 3
MaxUsers == 2
MaxProcs == 2

(***************************************************************************)
(* JavaScript values                                                       *)
(***************************************************************************)
\* an id or a phone number that the request omits
NoId == 0
\* an id that names no document
IdDesconocido == NoId - 1
\* a text field that the request omits
undefined == "<undefined>"

\* typed values, for fields whose encoding matters
JSUndefined == [type |-> "undefined", str |-> ""]
JSBool(b) == [type |-> "boolean", str |-> IF b THEN "true" ELSE "false"]
JSStr(s) == [type |-> "string", str |-> s]
JSNum(n) == [type |-> "number", str |-> n]

\* ToBoolean of a typed value: what `if (v)` and `!v` test
Truthy(v) ==
  CASE v.type = "undefined" -> FALSE
    [] v.type = "boolean" -> v.str = "true"
    [] v.type = "string" -> v.str # ""
    [] v.type = "number" -> v.str # "0"

\* `!id` for an id or phone number, `!s` for a text
FalsyId(id) == id = NoId
FalsyText(s) == s \in {undefined, ""}

(***************************************************************************)
(* The document store and the remote calls                                 *)
(***************************************************************************)
Collections == {"PERSONA", "PERFIL", "MENSAJE", "CLAVE", "CONTACTO", "UBICACION",
                "ALERTA", "ALERTA_DERIVADA", "GRUPO", "GRUPO_PERSONA",
                "InvitacionGrupo", "UBICACION_ACTUAL", "UBICACION_SELECCION"}

EmptyColl == [x \in {} |-> [id |-> 0]]

EmptyDb == [c \in Collections |-> EmptyColl]

\* one remote call of a handler; ok is FALSE when the call throws
Call(svc, op, target, id, text, ok) ==
  [svc |-> svc, op |-> op, target |-> target, id |-> id, text |-> text, ok |-> ok]

Fs(op, target, id, ok) == Call("firestore", op, target, id, <<>>, ok)

\* the result of a handler: response, state after it, remote calls made
Out(status, message, keys, s, cs) ==
  [status |-> status, message |-> message, keys |-> keys, s |-> s, calls |-> cs]

\* the state a handler works on
Cur == [db |-> db, autoId |-> autoId, auth |-> auth]

\* db.collection(c).doc(): a fresh automatic id
NewId(s, c) == s.autoId[c] + 1

\* ref.set(data) on a new document
SetDoc(s, c, id, data) ==
  [s EXCEPT !.db[c] = (id :> data) @@ @,
            !.autoId[c] = IF id > @ THEN id ELSE @]

\* ref.update(fields) on an existing document
UpdateDoc(s, c, id, fields) ==
  [s EXCEPT !.db[c][id] = fields @@ @]

\* ref.delete() / batch.delete(ref)
DeleteDocs(s, c, ids) ==
  [s EXCEPT !.db[c] = [x \in (DOMAIN @) \ ids |-> @[x]]]

\* the number of automatic ids the model lets a collection use
DocBound(c) ==
  CASE c = "GRUPO" -> MaxGrupos
    [] c = "GRUPO_PERSONA" -> MaxMiembros
    [] c = "InvitacionGrupo" -> MaxInvitaciones
    [] c \in {"ALERTA", "ALERTA_DERIVADA"} -> MaxAlertas
    [] c = "MENSAJE" -> MaxMensajes
    [] OTHER -> MaxDocs

\* a handler ran: record its request, response and calls
Handle(r, out) ==
  \E o \in {out} :
    /\ \A c \in Collections : o.s.autoId[c] <= DocBound(c)
    /\ Cardinality(DOMAIN o.s.auth) <= MaxUsers
    \* a failure is injected only into a call the handler makes
    /\ IF r.fail = 0 THEN TRUE ELSE r.fail <= Len(o.calls) /\ ~o.calls[r.fail].ok
    /\ db' = o.s.db
    /\ autoId' = o.s.autoId
    /\ auth' = o.s.auth
    /\ req' = r
    /\ res' = [status |-> o.status, message |-> o.message, keys |-> o.keys,
               miembros |-> IF "miembros" \in DOMAIN o THEN o.miembros ELSE <<>>,
               tipo_numerico |-> IF "tipo_numerico" \in DOMAIN o THEN o.tipo_numerico ELSE 0]
    /\ calls' = o.calls
    /\ pre' = db
    /\ enCurso' = enCurso
    /\ ultimoCambio' =
         IF r.route \in {"/desactivar-perfil", "/activar-perfil"} /\ o.status = 200
         THEN (r.id_persona :> (r.route = "/activar-perfil")) @@ ultimoCambio
         ELSE IF r.route = "/actualizar-ubicacion-seleccion" /\ o.status = 200
         THEN (r.id_persona :>
                 [tipo |-> r.tipo,
                  doc |-> CHOOSE d \in {o.s.db.UBICACION_SELECCION[x] :
                                          x \in DOMAIN o.s.db.UBICACION_SELECCION} :
                            d.id_persona = r.id_persona])
                @@ ultimoCambio
         ELSE ultimoCambio

\* the calls of a handler run that a failure can be injected into; 0 is none
FailPoints(o) == 0..Len(o.calls)

NoReq == [route |-> "none"]
NoRes == [status |-> 0, message |-> "", keys |-> {}, miembros |-> <<>>, tipo_numerico |-> 0]

\* the catch block of a handler: 500 with the caught error's message
Err(message, s, cs) == Out(500, message, {"error"}, s, cs)

Min(S) == CHOOSE x \in S : \A y \in S : x <= y

(***************************************************************************)
(* routes/usuario/grupo.js                                                 *)
(***************************************************************************)
\* the membership query without its id_usuario clause
Membresias_sinUsuario(s, g, u) ==
  {m \in DOMAIN s.db.GRUPO_PERSONA :
     s.db.GRUPO_PERSONA[m].id_grupo = g}

\* GRUPO_PERSONA where id_grupo == g and id_usuario == u
Membresias(s, g, u) ==
  {m \in DOMAIN s.db.GRUPO_PERSONA :
     s.db.GRUPO_PERSONA[m].id_grupo = g /\ s.db.GRUPO_PERSONA[m].id_usuario = u}

\* InvitacionGrupo where id_grupo == g, id_usuario == u, estado == true, aceptado == false
Pendientes(s, g, u) ==
  {i \in DOMAIN s.db.InvitacionGrupo :
     LET inv == s.db.InvitacionGrupo[i] IN
       inv.id_grupo = g /\ inv.id_usuario = u /\ inv.estado /\ ~inv.aceptado}

\* POST /crear-grupo
crear_grupo(s, nombre_grupo, id_usuario_creador, color_hex, descripcion, file, fail) ==
  LET msg500 == "Error al crear el grupo o al agregar al usuario"
      k == IF file THEN 2 ELSE 0
      id_grupo == NewId(s, "GRUPO")
      up1 == IF file THEN <<Call("storage", "save", "grupos", id_grupo, <<>>, fail # 1)>> ELSE <<>>
      up2 == Append(up1, Call("storage", "makePublic", "grupos", id_grupo, <<>>, fail # 2))
      up == IF file THEN up2 ELSE <<>>
      c1 == Append(up, Fs("set", "GRUPO", id_grupo, fail # k + 1))
      s1 == SetDoc(s, "GRUPO", id_grupo, [estado |-> TRUE, id_usuario |-> id_usuario_creador])
      id_gp == NewId(s1, "GRUPO_PERSONA")
      c2 == Append(c1, Fs("set", "GRUPO_PERSONA", id_gp, fail # k + 2))
      s2 == SetDoc(s1, "GRUPO_PERSONA", id_gp,
                   [id_grupo |-> id_grupo, id_usuario |-> id_usuario_creador])
  IN
  IF FalsyText(nombre_grupo) \/ FalsyId(id_usuario_creador) \/ FalsyText(color_hex)
  THEN Out(400, "Los campos 'nombre_grupo', 'id_usuario_creador' y 'color_hex' son requeridos", {}, s, <<>>)
  ELSE IF file /\ fail = 1 THEN Err(msg500, s, up1)
  ELSE IF file /\ fail = 2 THEN Err(msg500, s, up2)
  \* set() rejects a document with an undefined field before it is sent
  ELSE IF descripcion = undefined THEN Err(msg500, s, up)
  ELSE IF fail = k + 1 THEN Err(msg500, s, c1)
  ELSE IF fail = k + 2 THEN Err(msg500, s1, c2)
  ELSE Out(201, "Grupo creado exitosamente y usuario agregado al grupo", {"grupo", "grupoPersona"}, s2, c2)

\* the selection query of /eliminar-grupo finding nothing
SeleccionesDelGrupo_ninguna(s, id_grupo) == {}

\* UBICACION_SELECCION where id_grupo == id_grupo
SeleccionesDelGrupo(s, id_grupo) ==
  {x \in DOMAIN s.db.UBICACION_SELECCION :
     s.db.UBICACION_SELECCION[x].id_grupo = id_grupo}

\* DELETE /eliminar-grupo
eliminar_grupo(s, id_grupo, fail) ==
  LET msg500 == "Error al eliminar el grupo"
      c1 == <<Fs("get", "GRUPO", id_grupo, fail # 1)>>
      c2 == Append(c1, Fs("update", "GRUPO", id_grupo, fail # 2))
      s2 == UpdateDoc(s, "GRUPO", id_grupo, [estado |-> FALSE])
      c3 == Append(c2, Fs("query", "UBICACION_SELECCION", id_grupo, fail # 3))
      sel == SeleccionesDelGrupo(s2, id_grupo)
      c4 == Append(c3, Fs("batch", "UBICACION_SELECCION", id_grupo, fail # 4))
      s4 == [s2 EXCEPT !.db.UBICACION_SELECCION =
               [x \in DOMAIN @ |->
                  IF x \in sel THEN [id_grupo |-> NoId, grupo_buscar |-> 0] @@ @[x]
                  ELSE @[x]]]
      ok == "Grupo eliminado exitosamente (estado cambiado a false) y ubicaciones seleccionadas actualizadas."
  IN
  IF FalsyId(id_grupo) THEN Out(400, "El campo 'id_grupo' es requerido", {}, s, <<>>)
  ELSE IF fail = 1 THEN Err(msg500, s, c1)
  ELSE IF id_grupo \notin DOMAIN s.db.GRUPO THEN Out(200, "No se encontro el grupo", {}, s, c1)
  ELSE IF fail = 2 THEN Err(msg500, s, c2)
  ELSE IF fail = 3 THEN Err(msg500, s2, c3)
  ELSE IF sel = {} THEN Out(200, ok, {}, s2, c3)
  ELSE IF fail = 4 THEN Err(msg500, s2, c4)
  ELSE Out(200, ok, {}, s4, c4)

\* POST /invitar-usuario
invitar_usuario(s, id_grupo, celular, id_usuario_emisor, fail) ==
  LET msg500 == "Error al enviar la invitacion"
      c1 == <<Fs("query", "PERSONA", celular, fail # 1)>>
      usuarios == {p \in DOMAIN s.db.PERSONA : s.db.PERSONA[p].numero_telefono = celular}
      id_usuario == Min(usuarios)
      c2 == Append(c1, Fs("query", "GRUPO_PERSONA", id_grupo, fail # 2))
      c3 == Append(c2, Fs("query", "InvitacionGrupo", id_grupo, fail # 3))
      id_inv == NewId(s, "InvitacionGrupo")
      c4 == Append(c3, Fs("set", "InvitacionGrupo", id_inv, fail # 4))
      s4 == SetDoc(s, "InvitacionGrupo", id_inv,
                   [id_grupo |-> id_grupo, id_usuario |-> id_usuario,
                    id_usuario_emisor |-> id_usuario_emisor,
                    aceptado |-> FALSE, estado |-> TRUE])
  IN
  IF FalsyId(id_grupo) \/ FalsyId(celular) \/ FalsyId(id_usuario_emisor)
  THEN Out(400, "Los campos 'id_grupo', 'celular' y 'id_usuario_emisor' son requeridos", {}, s, <<>>)
  ELSE IF fail = 1 THEN Err(msg500, s, c1)
  ELSE IF usuarios = {}
  THEN Out(200, "No se encontro un usuario con el numero de telefono proporcionado", {}, s, c1)
  ELSE IF fail = 2 THEN Err(msg500, s, c2)
  ELSE IF Membresias(s, id_grupo, id_usuario) # {}
  THEN Out(200, "El usuario ya pertenece a este grupo", {}, s, c2)
  ELSE IF fail = 3 THEN Err(msg500, s, c3)
  ELSE IF Pendientes(s, id_grupo, id_usuario) # {}
  THEN Out(200, "Ya existe una invitacion pendiente para este usuario en este grupo", {}, s, c3)
  ELSE IF fail = 4 THEN Err(msg500, s, c4)
  ELSE Out(201, "Invitacion enviada exitosamente", {"invitacion"}, s4, c4)

\* the guard of /responder-invitacion that rejects an answered invitation
InvitacionUtilizada_sinEstado(invitacionData) == invitacionData.aceptado # FALSE

InvitacionUtilizada(invitacionData) ==
  ~invitacionData.estado \/ invitacionData.aceptado # FALSE

\* POST /responder-invitacion
responder_invitacion(s, id_InvitacionGrupo, aceptar, fail) ==
  LET msg500 == "Error al responder la invitacion"
      c1 == <<Fs("get", "InvitacionGrupo", id_InvitacionGrupo, fail # 1)>>
      invitacionData == s.db.InvitacionGrupo[id_InvitacionGrupo]
      id_grupo == invitacionData.id_grupo
      id_usuario == invitacionData.id_usuario
      \* accept branch
      c2 == Append(c1, Fs("query", "GRUPO_PERSONA", id_grupo, fail # 2))
      id_gp == NewId(s, "GRUPO_PERSONA")
      c3 == Append(c2, Fs("set", "GRUPO_PERSONA", id_gp, fail # 3))
      s3 == SetDoc(s, "GRUPO_PERSONA", id_gp, [id_grupo |-> id_grupo, id_usuario |-> id_usuario])
      c4 == Append(c3, Fs("update", "InvitacionGrupo", id_InvitacionGrupo, fail # 4))
      s4 == UpdateDoc(s3, "InvitacionGrupo", id_InvitacionGrupo, [aceptado |-> TRUE, estado |-> FALSE])
      \* reject branch
      r2 == Append(c1, Fs("update", "InvitacionGrupo", id_InvitacionGrupo, fail # 2))
      t2 == UpdateDoc(s, "InvitacionGrupo", id_InvitacionGrupo, [aceptado |-> FALSE, estado |-> FALSE])
  IN
  IF FalsyId(id_InvitacionGrupo) \/ aceptar = JSUndefined
  THEN Out(400, "El campo 'id_InvitacionGrupo' es requerido, y 'aceptar' debe ser true o false.", {}, s, <<>>)
  ELSE IF fail = 1 THEN Err(msg500, s, c1)
  ELSE IF id_InvitacionGrupo \notin DOMAIN s.db.InvitacionGrupo
  THEN Out(200, "No se encontro la invitacion", {}, s, c1)
  ELSE IF InvitacionUtilizada(invitacionData)
  THEN Out(400, "La invitacion ya fue utilizada o esta desactivada", {}, s, c1)
  ELSE IF Truthy(aceptar)
  THEN IF fail = 2 THEN Err(msg500, s, c2)
       ELSE IF Membresias(s, id_grupo, id_usuario) # {}
       THEN Out(400, "El usuario ya pertenece a este grupo", {}, s, c2)
       ELSE IF fail = 3 THEN Err(msg500, s, c3)
       ELSE IF fail = 4 THEN Err(msg500, s3, c4)
       ELSE Out(200, "Invitacion aceptada y usuario agregado al grupo exitosamente", {"grupoPersona"}, s4, c4)
  ELSE IF fail = 2 THEN Err(msg500, s, r2)
       ELSE Out(200, "Invitacion rechazada exitosamente", {}, t2, r2)

\* POST /grupo/eliminar-usuario
grupo_eliminar_usuario(s, id_grupo, id_usuario, fail) ==
  LET msg500 == "Error al eliminar el usuario del grupo"
      c1 == <<Fs("query", "GRUPO_PERSONA", id_grupo, fail # 1)>>
      ms == Membresias(s, id_grupo, id_usuario)
      c2 == Append(c1, Fs("batch", "GRUPO_PERSONA", id_grupo, fail # 2))
      s2 == DeleteDocs(s, "GRUPO_PERSONA", ms)
  IN
  IF FalsyId(id_grupo) \/ FalsyId(id_usuario)
  THEN Out(400, "Los campos 'id_grupo' e 'id_usuario' son requeridos", {}, s, <<>>)
  ELSE IF fail = 1 THEN Err(msg500, s, c1)
  ELSE IF ms = {}
  THEN Out(200, "El usuario no pertenece a este grupo o ya ha sido eliminado", {}, s, c1)
  ELSE IF fail = 2 THEN Err(msg500, s, c2)
  ELSE Out(200, "Usuario eliminado del grupo exitosamente", {"id_grupo", "id_usuario"}, s2, c2)

(***************************************************************************)
(* routes/usuario/login.js, routes/admin/admin_usuario.js,                 *)
(* routes/usuario/datos_usuario.js                                         *)
(***************************************************************************)
\* the role mapping of /register comparing with == instead of ===
TipoUsuarioAsignado_laxo(tipo_usuario) ==
  IF tipo_usuario.str = "1" THEN "kwLQngxZFsGKG3a3K1xO"
  ELSE IF tipo_usuario.str = "2" THEN "A0oH8hs2ZQzkcoAmiAR4"
  ELSE IF tipo_usuario.str = "3" THEN "i2uxd503bDQo9OrcCZFP"
  ELSE "null"

\* the role ids /register maps tipo_usuario to with ===; null otherwise
TipoUsuarioAsignado(tipo_usuario) ==
  IF tipo_usuario = JSNum("1") THEN "kwLQngxZFsGKG3a3K1xO"
  ELSE IF tipo_usuario = JSNum("2") THEN "A0oH8hs2ZQzkcoAmiAR4"
  ELSE IF tipo_usuario = JSNum("3") THEN "i2uxd503bDQo9OrcCZFP"
  ELSE "null"

\* the accounts of the authentication service with this e-mail
Cuentas(s, correo) == {u \in DOMAIN s.auth : s.auth[u].email = correo}

\* the catch block of createUser in /register
register_catch(s, cs) ==
  Out(200, "Error al registrar : Correo duplicado", {"error"}, s, cs)

\* POST /register
register(s, nombre, correo, password, numero_telefono, tipo_usuario, fail) ==
  LET msg500 == "Error al registrar el usuario, fallo del sistema, contactar con soporte tecnico"
      uid == Cardinality(DOMAIN s.auth) + 1
      c1 == <<Call("auth", "createUser", "auth", correo, <<>>,
                   fail # 1 /\ Cuentas(s, correo) = {})>>
      s1 == [s EXCEPT !.auth = (uid :> [email |-> correo, password |-> password]) @@ @]
      c2 == Append(c1, Fs("set", "PERSONA", uid, fail # 2))
      s2 == SetDoc(s1, "PERSONA", uid,
                   [nombre |-> nombre, correo |-> correo, numero_telefono |-> numero_telefono])
      c3 == Append(c2, Fs("set", "PERFIL", uid, fail # 3))
      s3 == SetDoc(s2, "PERFIL", uid,
                   [correo |-> correo, estado |-> TRUE,
                    tipo_usuario |-> TipoUsuarioAsignado(tipo_usuario)])
      id_mensaje == NewId(s3, "MENSAJE")
      c4 == Append(c3, Fs("set", "MENSAJE", id_mensaje, fail # 4))
      s4 == SetDoc(s3, "MENSAJE", id_mensaje, [id_persona |-> uid, mensaje |-> "Ayuda"])
      c5 == Append(c4, Fs("get", "PERSONA", uid, fail # 5))
      c6 == Append(c5, Fs("get", "PERFIL", uid, fail # 6))
  IN
  IF FalsyText(nombre) \/ FalsyId(correo) \/ FalsyText(password)
  THEN Out(400, "Los campos 'nombre', 'apellido', 'correo', 'password', 'fecha_nacimiento', 'direccion', 'id_comuna' e 'id_genero' son obligatorios.", {}, s, <<>>)
  ELSE IF ~c1[1].ok THEN register_catch(s, c1)
  ELSE IF fail = 2 THEN Err(msg500, s1, c2)
  ELSE IF fail = 3 THEN Err(msg500, s2, c3)
  ELSE IF fail = 4 THEN Err(msg500, s3, c4)
  ELSE IF fail = 5 THEN Err(msg500, s4, c5)
  ELSE IF fail = 6 THEN Err(msg500, s4, c6)
  ELSE Out(201, "Usuario registrado exitosamente.", {"uid", "persona", "perfil"}, s4, c6)

\* the check of PERFIL.estado in /login
Restringido_nunca(perfilData) == FALSE

Restringido(perfilData) == perfilData.estado = FALSE

\* POST /login
login(s, correo, password, fail) ==
  LET msg500 == "Error al iniciar sesion."
      cuentas == {u \in Cuentas(s, correo) : s.auth[u].password = password}
      c1 == <<Call("auth", "signInWithPassword", "auth", correo, <<>>,
                   fail # 1 /\ cuentas # {})>>
      uid == CHOOSE u \in cuentas : TRUE
      c2 == Append(c1, Fs("get", "PERSONA", uid, fail # 2))
      c3 == Append(c2, Fs("get", "PERFIL", uid, fail # 3))
  IN
  IF FalsyId(correo) \/ FalsyText(password)
  THEN Out(400, "Los campos 'correo' y 'password' son obligatorios.", {}, s, <<>>)
  ELSE IF ~c1[1].ok THEN Err(msg500, s, c1)
  ELSE IF fail = 2 THEN Err(msg500, s, c2)
  ELSE IF fail = 3 THEN Err(msg500, s, c3)
  ELSE IF uid \notin DOMAIN s.db.PERSONA \/ uid \notin DOMAIN s.db.PERFIL
  THEN Out(404, "No se encontraron los datos del usuario en las colecciones PERSONA o PERFIL.", {}, s, c3)
  ELSE IF Restringido(s.db.PERFIL[uid])
  THEN Out(403, "El usuario tiene restringido el acceso a la plataforma.", {}, s, c3)
  ELSE Out(200, "Sesion iniciada exitosamente.", {"persona", "perfil"}, s, c3)

\* PUT /desactivar-perfil (estado false) and PUT /activar-perfil (estado true)
cambiar_estado_perfil(s, id_persona, estado, fail) ==
  LET msg500 == IF estado THEN "Error al activar el perfil." ELSE "Error al desactivar el perfil."
      c1 == <<Fs("get", "PERFIL", id_persona, fail # 1)>>
      c2 == Append(c1, Fs("update", "PERFIL", id_persona, fail # 2))
      s2 == UpdateDoc(s, "PERFIL", id_persona, [estado |-> estado])
  IN
  IF FalsyId(id_persona) THEN Out(400, "El campo 'id_persona' es obligatorio.", {}, s, <<>>)
  ELSE IF fail = 1 THEN Err(msg500, s, c1)
  ELSE IF id_persona \notin DOMAIN s.db.PERFIL
  THEN Out(404, "No se encontro el perfil con el id_persona", {}, s, c1)
  ELSE IF fail = 2 THEN Err(msg500, s, c2)
  ELSE Out(200, IF estado THEN "Perfil activado exitosamente." ELSE "Perfil desactivado exitosamente.",
           {}, s2, c2)

desactivar_perfil(s, id_persona, fail) == cambiar_estado_perfil(s, id_persona, FALSE, fail)

activar_perfil(s, id_persona, fail) == cambiar_estado_perfil(s, id_persona, TRUE, fail)

\* PUT /update-profile.  With an image the response is sent from the upload
\* stream's callbacks; what its finish callback throws is caught by nobody
\* and no response is sent (status 0).
update_profile(s, uid, nombre, file, fail) ==
  LET msg500 == "Error al actualizar el perfil."
      existe == uid \in DOMAIN s.db.PERSONA
      vacio == FalsyText(nombre)
      updateData == [nombre |-> nombre]
      conImagen == IF vacio THEN [imagen_usuario |-> "url"]
                   ELSE [nombre |-> nombre, imagen_usuario |-> "url"]
      \* without image
      c1 == <<Fs("update", "PERSONA", uid, fail # 1 /\ existe)>>
      s1 == UpdateDoc(s, "PERSONA", uid, updateData)
      \* with image
      f1 == <<Call("storage", "createWriteStream", "profile-images", uid, <<>>, fail # 1)>>
      f2 == Append(f1, Call("storage", "makePublic", "profile-images", uid, <<>>, fail # 2))
      f3 == Append(f2, Fs("update", "PERSONA", uid, fail # 3 /\ existe))
      s3 == UpdateDoc(s, "PERSONA", uid, conImagen)
  IN
  IF FalsyId(uid) THEN Out(400, "El parametro 'uid' es obligatorio.", {}, s, <<>>)
  ELSE IF file
  THEN IF fail = 1 THEN Err("Error al subir la imagen.", s, f1)
       ELSE IF fail = 2 THEN Out(0, "", {}, s, f2)
       ELSE IF ~f3[3].ok THEN Out(0, "", {}, s, f3)
       ELSE Out(200, "Perfil actualizado exitosamente.", {"imageUrl"}, s3, f3)
  ELSE IF vacio
  THEN Out(400, "No se proporcionaron datos para actualizar.", {}, s, <<>>)
  ELSE IF ~c1[1].ok THEN Err(msg500, s, c1)
  ELSE Out(200, "Perfil actualizado exitosamente.", {}, s1, c1)

(***************************************************************************)
(* routes/usuario/alerta.js, routes/funcionario/derivar_alertas.js         *)
(***************************************************************************)
\* a set of ids in the order a query returns its documents
RECURSIVE EnOrden(_)
EnOrden(S) == IF S = {} THEN <<>> ELSE <<Min(S)>> \o EnOrden(S \ {Min(S)})

\* the contact query of /guardar-ubicacion without its where-clause
ContactosDe_todos(s, id_usuario) == EnOrden(DOMAIN s.db.CONTACTO)

\* CONTACTO where id_usuario == id_usuario
ContactosDe(s, id_usuario) ==
  EnOrden({c \in DOMAIN s.db.CONTACTO : s.db.CONTACTO[c].id_usuario = id_usuario})

\* the alert text sent and stored by /guardar-ubicacion
MensajeNuevo(mensaje, direccion, latitud, longitud) ==
  <<mensaje, ". Estimados, mi ubicacion actual es ", direccion, latitud, longitud>>

\* the loop of /guardar-ubicacion over the contacts: one WhatsApp message
\* per contact with a celular, in sequence, ended by the first send that throws
\* the fan-out sending once more to a contact whose send failed, and going on
RECURSIVE Envios_reintenta(_, _, _, _, _)
Envios_reintenta(s, contactos, texto, cs, fail) ==
  IF contactos = <<>> THEN cs
  ELSE LET contacto == s.db.CONTACTO[Head(contactos)]
           n == Len(cs) + 1
           c == Append(cs, Call("twilio", "messages.create", "whatsapp",
                                contacto.celular, texto, fail # n))
           r == Append(c, Call("twilio", "messages.create", "whatsapp",
                               contacto.celular, texto, TRUE))
       IN IF FalsyId(contacto.celular) THEN Envios_reintenta(s, Tail(contactos), texto, cs, fail)
          ELSE IF fail = n THEN Envios_reintenta(s, Tail(contactos), texto, r, fail)
          ELSE Envios_reintenta(s, Tail(contactos), texto, c, fail)

\* the remote calls cs followed by one send per contact with a celular, in
\* the order of the snapshot, up to and including the first that throws
RECURSIVE Envios(_, _, _, _, _)
Envios(s, contactos, texto, cs, fail) ==
  IF contactos = <<>> THEN cs
  ELSE LET contacto == s.db.CONTACTO[Head(contactos)]
           n == Len(cs) + 1
           c == Append(cs, Call("twilio", "messages.create", "whatsapp",
                                contacto.celular, texto, fail # n))
       IN IF FalsyId(contacto.celular) THEN Envios(s, Tail(contactos), texto, cs, fail)
          ELSE IF fail = n THEN c
          ELSE Envios(s, Tail(contactos), texto, c, fail)

\* POST /guardar-ubicacion; geo is the formatted address the geocoding
\* service returns, "" when it returns no result
guardar_ubicacion(s, id_usuario, latitud, longitud, id_gravedad, mensaje, geo, fail) ==
  LET msg500 == "Error al guardar la ubicacion y alerta."
      id_ubicacion == NewId(s, "UBICACION")
      c1 == <<Fs("set", "UBICACION", id_ubicacion, fail # 1)>>
      s1 == SetDoc(s, "UBICACION", id_ubicacion,
                   [id_usuario |-> id_usuario, latitud |-> latitud, longitud |-> longitud])
      c2 == Append(c1, Call("maps", "geocode", "json", NoId, <<latitud, longitud>>, fail # 2))
      direccion == IF geo = "" THEN "Direccion no disponible" ELSE geo
      id_alerta == NewId(s1, "ALERTA")
      mensaje_nuevo == MensajeNuevo(mensaje, direccion, latitud, longitud)
      c3 == Append(c2, Fs("set", "ALERTA", id_alerta, fail # 3))
      s3 == SetDoc(s1, "ALERTA", id_alerta,
                   [direccion |-> direccion, id_gravedad |-> id_gravedad,
                    id_ubicacion |-> id_ubicacion, id_usuario |-> id_usuario,
                    mensaje |-> mensaje_nuevo])
      c4 == Append(c3, Fs("query", "CONTACTO", id_usuario, fail # 4))
      c5 == Envios(s3, ContactosDe(s3, id_usuario), mensaje_nuevo, c4, fail)
  IN
  IF FalsyId(id_usuario) \/ FalsyText(latitud) \/ FalsyText(longitud)
     \/ FalsyId(id_gravedad) \/ FalsyText(mensaje)
  THEN Out(400, "Los campos 'id_usuario', 'latitud', 'longitud', 'id_gravedad' y 'mensaje' son obligatorios.", {}, s, <<>>)
  ELSE IF fail = 1 THEN Err(msg500, s, c1)
  ELSE IF fail = 2 THEN Err(msg500, s1, c2)
  ELSE IF fail = 3 THEN Err(msg500, s1, c3)
  ELSE IF fail = 4 THEN Err(msg500, s3, c4)
  ELSE IF ~c5[Len(c5)].ok THEN Err(msg500, s3, c5)
  ELSE Out(200, "Ubicacion y alerta guardadas exitosamente. Mensajes de WhatsApp enviados a los contactos.",
           {"id_ubicacion", "id_alerta"}, s3, c5)

\* POST /guardar-contacto
guardar_contacto(s, nombres, celular, id_usuario, fail) ==
  LET id_contacto == NewId(s, "CONTACTO")
      c1 == <<Fs("set", "CONTACTO", id_contacto, fail # 1)>>
      s1 == SetDoc(s, "CONTACTO", id_contacto,
                   [nombres |-> nombres, celular |-> celular, id_usuario |-> id_usuario])
  IN
  IF FalsyText(nombres) \/ FalsyId(celular) \/ FalsyId(id_usuario)
  THEN Out(400, "Todos los campos son obligatorios", {}, s, <<>>)
  ELSE IF fail = 1 THEN Err("Error al agregar el contacto", s, c1)
  ELSE Out(201, "Contacto agregado exitosamente", {"contacto"}, s1, c1)

\* PUT /editar-contacto
editar_contacto(s, nombres, celular, id_contacto, fail) ==
  LET msg500 == "Error al actualizar el contacto"
      c1 == <<Fs("get", "CONTACTO", id_contacto, fail # 1)>>
      c2 == Append(c1, Fs("update", "CONTACTO", id_contacto, fail # 2))
      s2 == UpdateDoc(s, "CONTACTO", id_contacto, [nombres |-> nombres, celular |-> celular])
  IN
  IF FalsyText(nombres) \/ FalsyId(celular)
  THEN Out(400, "Todos los campos (nombres, apellidos, celular, email) son obligatorios", {}, s, <<>>)
  \* doc(undefined) throws before any call is made
  ELSE IF FalsyId(id_contacto) THEN Err(msg500, s, <<>>)
  ELSE IF fail = 1 THEN Err(msg500, s, c1)
  ELSE IF id_contacto \notin DOMAIN s.db.CONTACTO
  THEN Out(200, "No se encontro el contacto", {}, s, c1)
  ELSE IF fail = 2 THEN Err(msg500, s, c2)
  ELSE Out(200, "Contacto actualizado exitosamente", {"contacto"}, s2, c2)

\* DELETE /borrar-contacto
borrar_contacto(s, id_contacto, fail) ==
  LET msg500 == "Error al eliminar el contacto"
      c1 == <<Fs("get", "CONTACTO", id_contacto, fail # 1)>>
      c2 == Append(c1, Fs("delete", "CONTACTO", id_contacto, fail # 2))
      s2 == DeleteDocs(s, "CONTACTO", {id_contacto})
  IN
  IF FalsyId(id_contacto) THEN Out(400, "El 'id_contacto' es requerido", {}, s, <<>>)
  ELSE IF fail = 1 THEN Err(msg500, s, c1)
  ELSE IF id_contacto \notin DOMAIN s.db.CONTACTO
  THEN Out(200, "No se encontro el contacto", {}, s, c1)
  ELSE IF fail = 2 THEN Err(msg500, s, c2)
  ELSE Out(200, "Contacto eliminado exitosamente", {}, s2, c2)

\* POST /derivar-alerta
derivar_alerta(s, id_alerta, id_departamento, id_funcionario, fail) ==
  LET msg500 == "Error al derivar la alerta."
      c1 == <<Fs("get", "ALERTA", id_alerta, fail # 1)>>
      id_alerta_derivada == NewId(s, "ALERTA_DERIVADA")
      c2 == Append(c1, Fs("set", "ALERTA_DERIVADA", id_alerta_derivada, fail # 2))
      s2 == SetDoc(s, "ALERTA_DERIVADA", id_alerta_derivada,
                   [id_alerta |-> id_alerta, id_departamento |-> id_departamento,
                    id_funcionario |-> id_funcionario])
  IN
  IF FalsyId(id_alerta) \/ FalsyId(id_departamento) \/ FalsyId(id_funcionario)
  THEN Out(400, "Los campos 'id_alerta', 'id_departamento' y 'id_funcionario' son obligatorios.", {}, s, <<>>)
  ELSE IF fail = 1 THEN Err(msg500, s, c1)
  ELSE IF id_alerta \notin DOMAIN s.db.ALERTA
  THEN Out(404, "No se encontro la alerta", {}, s, c1)
  ELSE IF fail = 2 THEN Err(msg500, s, c2)
  ELSE Out(201, "Alerta derivada exitosamente.", {"alertaDerivada"}, s2, c2)

(***************************************************************************)
(* routes/usuario/ubicacion_actual.js                                      *)
(***************************************************************************)
\* the JavaScript null
null == [null |-> TRUE]

\* snapshot.docs.map(doc => doc.data().id_usuario) and the same for id_grupo
IdUsuarioDe(s, docs) == [i \in 1..Len(docs) |-> s.db.GRUPO_PERSONA[docs[i]].id_usuario]
IdGrupoDe(s, docs) == [i \in 1..Len(docs) |-> s.db.GRUPO_PERSONA[docs[i]].id_grupo]

\* GRUPO_PERSONA where id_grupo == g
MiembrosDelGrupo(s, g) ==
  EnOrden({m \in DOMAIN s.db.GRUPO_PERSONA : s.db.GRUPO_PERSONA[m].id_grupo = g})

\* GRUPO_PERSONA where id_usuario == u
GruposDe(s, u) ==
  EnOrden({m \in DOMAIN s.db.GRUPO_PERSONA : s.db.GRUPO_PERSONA[m].id_usuario = u})

\* the members of the groups idGrupos, group after group
RECURSIVE MiembrosDeGrupos(_, _)
MiembrosDeGrupos(s, idGrupos) ==
  IF idGrupos = <<>> THEN <<>>
  ELSE IdUsuarioDe(s, MiembrosDelGrupo(s, Head(idGrupos)))
         \o MiembrosDeGrupos(s, Tail(idGrupos))

\* [...new Set(seq)]: the elements of seq once each, in order of insertion
RECURSIVE Unicos(_, _)
Unicos(seq, acc) ==
  IF seq = <<>> THEN acc
  ELSE Unicos(Tail(seq),
              IF \E i \in 1..Len(acc) : acc[i] = Head(seq) THEN acc
              ELSE Append(acc, Head(seq)))

\* UBICACION_ACTUAL where id_usuario == u, limit(1): docs[0].data() or null
UbicacionActual(s, u) ==
  LET S == {x \in DOMAIN s.db.UBICACION_ACTUAL : s.db.UBICACION_ACTUAL[x].id_usuario = u}
  IN IF S = {} THEN null ELSE s.db.UBICACION_ACTUAL[Min(S)]

\* the entries of `miembros` for idUsuarios; a person without PERSONA is left out
RECURSIVE MiembrosFiltrados(_, _)
MiembrosFiltrados(s, idUsuarios) ==
  IF idUsuarios = <<>> THEN <<>>
  ELSE (IF Head(idUsuarios) \in DOMAIN s.db.PERSONA
        THEN <<[id_usuario |-> Head(idUsuarios),
                ubicacion |-> UbicacionActual(s, Head(idUsuarios))]>>
        ELSE <<>>)
       \o MiembrosFiltrados(s, Tail(idUsuarios))

\* the reads of the members' data: PERSONA, and PERFIL when the person exists
RECURSIVE LecturasDeMiembros(_, _)
LecturasDeMiembros(s, idUsuarios) ==
  IF idUsuarios = <<>> THEN <<>>
  ELSE (IF Head(idUsuarios) \in DOMAIN s.db.PERSONA
        THEN <<<<"get", "PERSONA", Head(idUsuarios)>>, <<"get", "PERFIL", Head(idUsuarios)>>>>
        ELSE <<<<"get", "PERSONA", Head(idUsuarios)>>>>)
       \o LecturasDeMiembros(s, Tail(idUsuarios))

\* the reads as remote calls, up to and including the one that throws
Lecturas(reads, fail) ==
  [i \in 1..(IF fail \in 1..Len(reads) THEN fail ELSE Len(reads)) |->
     Fs(reads[i][1], reads[i][2], reads[i][3], fail # i)]

\* GET /listar-ubicacion-actual
listar_ubicacion_actual(s, id_persona, id_grupo, id_persona_buscar, fail) ==
  LET msg500 == "Error al obtener los miembros unicos de todos los grupos"
      grupoPersonaSnapshot == MiembrosDelGrupo(s, id_grupo)
      gruposSnapshot == GruposDe(s, id_persona)
      idGrupos == IdGrupoDe(s, gruposSnapshot)
      consultas ==
        IF ~FalsyId(id_persona_buscar) THEN <<>>
        ELSE IF ~FalsyId(id_grupo) THEN <<<<"query", "GRUPO_PERSONA", id_grupo>>>>
        ELSE <<<<"query", "GRUPO_PERSONA", id_persona>>>>
      vacio ==
        IF ~FalsyId(id_persona_buscar) THEN FALSE
        ELSE IF ~FalsyId(id_grupo) THEN grupoPersonaSnapshot = <<>>
        ELSE gruposSnapshot = <<>>
      porGrupo ==
        IF FalsyId(id_persona_buscar) /\ FalsyId(id_grupo)
        THEN [i \in 1..Len(idGrupos) |-> <<"query", "GRUPO_PERSONA", idGrupos[i]>>]
        ELSE <<>>
      idUsuarios ==
        IF ~FalsyId(id_persona_buscar) THEN <<id_persona_buscar>>
        ELSE IF ~FalsyId(id_grupo) THEN IdUsuarioDe(s, grupoPersonaSnapshot)
        ELSE Unicos(MiembrosDeGrupos(s, idGrupos), <<>>)
      ubicaciones ==
        [i \in 1..Len(idUsuarios) |-> <<"query", "UBICACION_ACTUAL", idUsuarios[i]>>]
      todas == consultas \o porGrupo \o ubicaciones \o LecturasDeMiembros(s, idUsuarios)
  IN
  IF FalsyId(id_persona)
  THEN Out(400, "El parametro 'id_persona' es obligatorio.", {}, s, <<>>)
  ELSE IF fail \in 1..Len(consultas) THEN Err(msg500, s, Lecturas(consultas, fail))
  ELSE IF vacio
  THEN [miembros |-> <<>>] @@
       Out(200, IF ~FalsyId(id_grupo) THEN "El grupo no tiene miembros."
                ELSE "El usuario no pertenece a ningun grupo.",
           {"miembros"}, s, Lecturas(consultas, fail))
  ELSE IF fail \in 1..Len(todas) THEN Err(msg500, s, Lecturas(todas, fail))
  ELSE [miembros |-> MiembrosFiltrados(s, idUsuarios)] @@
       Out(200, "Miembros unicos de todos los grupos obtenidos exitosamente.",
           {"miembros"}, s, Lecturas(todas, fail))

(***************************************************************************)
(* routes/usuario/login.js: the location selection                         *)
(***************************************************************************)
\* [1, 2, 3, 4].includes(tipo)
TipoValido(tipo) == tipo.type = "number" /\ tipo.str \in {"1", "2", "3", "4"}

\* ubicacionSeleccionData after the switch on tipo; null is kept as NoId
UbicacionSeleccionData(id_persona, tipo, id_grupo, id_persona_buscar) ==
  [id_persona |-> id_persona,
   id_grupo |-> IF tipo.str = "2" THEN id_grupo ELSE NoId,
   persona_buscar |-> IF tipo.str = "1" THEN 1 ELSE 0,
   grupo_buscar |-> IF tipo.str = "2" THEN 1 ELSE 0,
   todos |-> IF tipo.str = "3" THEN 1 ELSE 0,
   id_persona_buscar |->
     IF tipo.str = "1"
     THEN (IF FalsyId(id_persona_buscar) THEN id_persona ELSE id_persona_buscar)
     ELSE NoId]

\* UBICACION_SELECCION where id_persona == id_persona, limit(1)
SeleccionDe(s, id_persona) ==
  {x \in DOMAIN s.db.UBICACION_SELECCION :
     s.db.UBICACION_SELECCION[x].id_persona = id_persona}

\* POST /actualizar-ubicacion-seleccion
actualizar_ubicacion_seleccion(s, id_persona, tipo, id_grupo, id_persona_buscar, fail) ==
  LET msg500 == "Error al actualizar o crear el registro de ubicacion seleccionada."
      data == UbicacionSeleccionData(id_persona, tipo, id_grupo, id_persona_buscar)
      encontrados == SeleccionDe(s, id_persona)
      c1 == <<Fs("query", "UBICACION_SELECCION", id_persona, fail # 1)>>
      id_nuevo == NewId(s, "UBICACION_SELECCION")
      c2u == Append(c1, Fs("update", "UBICACION_SELECCION", Min(encontrados), fail # 2))
      c2a == Append(c1, Fs("add", "UBICACION_SELECCION", id_nuevo, fail # 2))
      \* tipo 2 without id_grupo leaves an undefined field, which the store rejects
      indefinido == tipo.str = "2" /\ FalsyId(id_grupo)
  IN
  IF FalsyId(id_persona) \/ tipo.type = "undefined"
  THEN Out(400, "Los campos 'id_persona' y 'tipo' son obligatorios.", {}, s, <<>>)
  ELSE IF ~TipoValido(tipo)
  THEN Out(400, "El campo 'tipo' debe ser 1 (persona), 2 (grupo), 3 (todos), o 4 (ninguno).", {}, s, <<>>)
  ELSE IF fail = 1 THEN Err(msg500, s, c1)
  ELSE IF indefinido THEN Err(msg500, s, c1)
  ELSE IF encontrados # {}
  THEN (IF fail = 2 THEN Err(msg500, s, c2u)
        ELSE Out(200, "Ubicacion seleccionada actualizada exitosamente.", {},
                 UpdateDoc(s, "UBICACION_SELECCION", Min(encontrados), data), c2u))
  ELSE (IF fail = 2 THEN Err(msg500, s, c2a)
        ELSE Out(200, "Ubicacion seleccionada creada exitosamente.", {},
                 SetDoc(s, "UBICACION_SELECCION", id_nuevo, data), c2a))

\* ids.filter(id => id !== id_persona)
RECURSIVE SinPersona(_, _)
SinPersona(ids, id_persona) ==
  IF ids = <<>> THEN <<>>
  ELSE (IF Head(ids) = id_persona THEN <<>> ELSE <<Head(ids)>>)
       \o SinPersona(Tail(ids), id_persona)

\* the entries of `miembros` of the selection listing
RECURSIVE MiembrosSeleccion(_, _)
MiembrosSeleccion(s, idUsuarios) ==
  IF idUsuarios = <<>> THEN <<>>
  ELSE (IF Head(idUsuarios) \in DOMAIN s.db.PERSONA
        THEN <<[id_usuario |-> Head(idUsuarios)]>> ELSE <<>>)
       \o MiembrosSeleccion(s, Tail(idUsuarios))

\* the dispatch on the stored selection without its first branch
TipoNumerico_sinTodos(ubicacionData) ==
  IF ubicacionData.grupo_buscar = 1 THEN 2
  ELSE IF ubicacionData.persona_buscar = 1 THEN 1
  ELSE 4

\* tipoNumerico of the stored selection: todos, then grupo_buscar, then persona_buscar
TipoNumerico(ubicacionData) ==
  IF ubicacionData.todos = 1 THEN 3
  ELSE IF ubicacionData.grupo_buscar = 1 THEN 2
  ELSE IF ubicacionData.persona_buscar = 1 THEN 1
  ELSE 4

\* GET /listar-ubicacion-seleccion
listar_ubicacion_seleccion(s, id_persona, fail) ==
  LET msg500 == "Error al listar los datos segun la ubicacion seleccionada."
      encontrados == SeleccionDe(s, id_persona)
      ubicacionData ==
        IF encontrados = {}
        THEN [todos |-> 1, grupo_buscar |-> 0, persona_buscar |-> 0,
              id_grupo |-> NoId, id_persona_buscar |-> NoId]
        ELSE s.db.UBICACION_SELECCION[Min(encontrados)]
      tipoNumerico == TipoNumerico(ubicacionData)
      c1 == <<<<"query", "UBICACION_SELECCION", id_persona>>>>
      idGrupos == IdGrupoDe(s, GruposDe(s, id_persona))
      consultas ==
        CASE tipoNumerico = 3 ->
               <<<<"query", "GRUPO_PERSONA", id_persona>>>>
                 \o [i \in 1..Len(idGrupos) |-> <<"query", "GRUPO_PERSONA", idGrupos[i]>>]
          [] tipoNumerico = 2 ->
               <<<<"query", "GRUPO_PERSONA", ubicacionData.id_grupo>>,
                 <<"get", "GRUPO", ubicacionData.id_grupo>>>>
          [] OTHER -> <<>>
      idUsuarios ==
        CASE tipoNumerico = 3 ->
               SinPersona(Unicos(MiembrosDeGrupos(s, idGrupos), <<>>), id_persona)
          [] tipoNumerico = 2 ->
               SinPersona(IdUsuarioDe(s, MiembrosDelGrupo(s, ubicacionData.id_grupo)), id_persona)
          [] tipoNumerico = 1 -> <<ubicacionData.id_persona_buscar>>
          [] OTHER -> <<>>
      todas == c1 \o consultas \o LecturasDeMiembros(s, idUsuarios)
  IN
  IF FalsyId(id_persona)
  THEN Out(400, "El parametro 'id_persona' es obligatorio.", {}, s, <<>>)
  ELSE IF fail = 1 THEN Err(msg500, s, Lecturas(c1, fail))
  ELSE IF tipoNumerico = 4
  THEN [tipo_numerico |-> 4, miembros |-> <<>>] @@
       Out(200, "No hay ningun tipo seleccionado en la configuracion actual.",
           {"tipo_actual", "tipo_numerico", "id_relacion", "miembros", "grupo"},
           s, Lecturas(c1, fail))
  \* doc(null) throws before the read of GRUPO is sent
  ELSE IF tipoNumerico = 2 /\ FalsyId(ubicacionData.id_grupo)
  THEN Err(msg500, s, Lecturas(SubSeq(todas, 1, 2), fail))
  ELSE IF fail \in 1..Len(todas) THEN Err(msg500, s, Lecturas(todas, fail))
  ELSE [tipo_numerico |-> tipoNumerico, miembros |-> MiembrosSeleccion(s, idUsuarios)] @@
       Out(200, "Datos listados exitosamente segun la configuracion actual.",
           {"tipo_actual", "tipo_numerico", "id_relacion", "grupo", "miembros"},
           s, Lecturas(todas, fail))

(***************************************************************************)
(* routes/gestionar_claves.js                                              *)
(***************************************************************************)
\* POST /guardar-clave
guardar_clave(s, id_gravedad, id_usuario, palabra, id_mensaje, fail) ==
  LET id_clave == NewId(s, "CLAVE")
      c1 == <<Fs("set", "CLAVE", id_clave, fail # 1)>>
      s1 == SetDoc(s, "CLAVE", id_clave,
                   [id_gravedad |-> id_gravedad, id_usuario |-> id_usuario,
                    palabra |-> palabra, id_mensaje |-> id_mensaje])
  IN
  IF FalsyId(id_gravedad) \/ FalsyId(id_usuario) \/ FalsyText(palabra) \/ FalsyId(id_mensaje)
  THEN Out(400, "Los campos 'id_gravedad', 'id_usuario', 'palabra' e 'id_mensaje' son obligatorios.", {}, s, <<>>)
  ELSE IF fail = 1 THEN Err("Error al guardar la clave.", s, c1)
  ELSE Out(200, "Clave guardada exitosamente.", {"id_clave"}, s1, c1)

\* DELETE /eliminar-clave
eliminar_clave(s, id_clave, fail) ==
  LET msg500 == "Error al eliminar la clave."
      c1 == <<Fs("get", "CLAVE", id_clave, fail # 1)>>
      c2 == Append(c1, Fs("delete", "CLAVE", id_clave, fail # 2))
  IN
  \* doc(undefined) throws inside the try block
  IF FalsyId(id_clave) THEN Err(msg500, s, <<>>)
  ELSE IF fail = 1 THEN Err(msg500, s, c1)
  ELSE IF id_clave \notin DOMAIN s.db.CLAVE THEN Out(404, "Clave no encontrada.", {}, s, c1)
  ELSE IF fail = 2 THEN Err(msg500, s, c2)
  ELSE Out(200, "Clave eliminada exitosamente.", {}, DeleteDocs(s, "CLAVE", {id_clave}), c2)

\* POST /insertar-mensaje
insertar_mensaje(s, id_persona, mensaje, fail) ==
  LET id_mensaje == NewId(s, "MENSAJE")
      c1 == <<Fs("set", "MENSAJE", id_mensaje, fail # 1)>>
      s1 == SetDoc(s, "MENSAJE", id_mensaje, [id_persona |-> id_persona, mensaje |-> mensaje])
  IN
  IF FalsyId(id_persona) \/ FalsyText(mensaje)
  THEN Out(400, "Los campos 'id_persona' y 'mensaje' son obligatorios.", {}, s, <<>>)
  ELSE IF fail = 1 THEN Err("Error al insertar el mensaje.", s, c1)
  ELSE Out(201, "Mensaje insertado exitosamente.", {"id_mensaje"}, s1, c1)

\* the query for other messages without its document-id clause
OtrosMensajes_todos(s, id_persona, id_mensaje) ==
  {m \in DOMAIN s.db.MENSAJE : s.db.MENSAJE[m].id_persona = id_persona}

\* MENSAJE where id_persona == id_persona and documentId != id_mensaje
OtrosMensajes(s, id_persona, id_mensaje) ==
  {m \in DOMAIN s.db.MENSAJE :
     s.db.MENSAJE[m].id_persona = id_persona /\ m # id_mensaje}

\* the key query of /eliminar-mensaje finding nothing
ClavesDelMensaje_ninguna(s, id_mensaje) == {}

\* CLAVE where id_mensaje == id_mensaje
ClavesDelMensaje(s, id_mensaje) ==
  {c \in DOMAIN s.db.CLAVE : s.db.CLAVE[c].id_mensaje = id_mensaje}

\* batch.update(claveRef, {id_mensaje: mensajeDeReemplazo}) for the keys `claves`
ReasignarClaves(s, claves, mensajeDeReemplazo) ==
  [s EXCEPT !.db.CLAVE =
     [c \in DOMAIN @ |->
        IF c \in claves THEN [@[c] EXCEPT !.id_mensaje = mensajeDeReemplazo] ELSE @[c]]]

\* DELETE /eliminar-mensaje
eliminar_mensaje(s, id_mensaje, fail) ==
  LET msg500 == "Error al eliminar el mensaje."
      c1 == <<Fs("get", "MENSAJE", id_mensaje, fail # 1)>>
      id_persona == s.db.MENSAJE[id_mensaje].id_persona
      c2 == Append(c1, Fs("query", "MENSAJE", id_persona, fail # 2))
      otros == OtrosMensajes(s, id_persona, id_mensaje)
      mensajeDeReemplazo == Min(otros)
      c3 == Append(c2, Fs("query", "CLAVE", id_mensaje, fail # 3))
      claves == ClavesDelMensaje(s, id_mensaje)
      c4 == Append(c3, Fs("batch", "CLAVE", id_mensaje, fail # 4))
      s4 == ReasignarClaves(s, claves, mensajeDeReemplazo)
      c5 == Append(c4, Fs("delete", "MENSAJE", id_mensaje, fail # 5))
      s5 == DeleteDocs(s4, "MENSAJE", {id_mensaje})
  IN
  \* doc(undefined) throws inside the try block
  IF FalsyId(id_mensaje) THEN Err(msg500, s, <<>>)
  ELSE IF fail = 1 THEN Err(msg500, s, c1)
  ELSE IF id_mensaje \notin DOMAIN s.db.MENSAJE THEN Out(404, "Mensaje no encontrado.", {}, s, c1)
  ELSE IF fail = 2 THEN Err(msg500, s, c2)
  ELSE IF otros = {}
  THEN Out(400, "El usuario solo tiene este mensaje, no se puede eliminar.", {}, s, c2)
  ELSE IF fail = 3 THEN Err(msg500, s, c3)
  ELSE IF fail = 4 THEN Err(msg500, s, c4)
  ELSE IF fail = 5 THEN Err(msg500, s4, c5)
  ELSE Out(200, "Mensaje eliminado exitosamente y claves reasignadas a otro mensaje del usuario.",
           {}, s5, c5)

(***************************************************************************)
(* Requests                                                                *)
(***************************************************************************)
Users == 1..MaxUsers
Texts == {undefined, "x"}
\* the telephone of a registered person, and one nobody has
Celular(u) == 10 + u
Celulares == {NoId} \cup {Celular(u) : u \in 1..(MaxUsers + 1)}
\* the telephones given to contacts
CelularesContacto == {NoId} \cup {Celular(u) : u \in Users}
\* `aceptar` as a JSON body and as a multipart or urlencoded body carry it
Aceptar == {JSUndefined, JSBool(TRUE), JSBool(FALSE), JSStr("true"), JSStr("false")}

\* the documents /register writes for person u
PersonaDoc(u) == [nombre |-> "x", correo |-> u, numero_telefono |-> Celular(u)]
PerfilDoc(u, tipo) == [correo |-> u, estado |-> TRUE, tipo_usuario |-> tipo]

\* the store once the persons of Users have registered
Registered ==
  [EmptyDb EXCEPT !.PERSONA = [u \in Users |-> PersonaDoc(u)],
                  !.PERFIL = [u \in Users |-> PerfilDoc(u, "kwLQngxZFsGKG3a3K1xO")]]

Accounts == [u \in Users |-> [email |-> u, password |-> "pw"]]

\* the requests that can be in flight together; one not yet received is
\* [pc |-> "libre"]
Procs == 1..MaxProcs

\* the service starts on store s
InitEn(s) ==
  /\ db = s.db
  /\ autoId = s.autoId
  /\ auth = s.auth
  /\ req = NoReq
  /\ res = NoRes
  /\ calls = <<>>
  /\ pre = s.db
  /\ ultimoCambio = EmptyColl
  /\ enCurso = [p \in Procs |-> [pc |-> "libre"]]

InitWith(d, cuentas) ==
  InitEn([db |-> d, autoId |-> [c \in Collections |-> 0], auth |-> cuentas])

\* the ids a request can name in collection c: none, one that names no
\* document, and the ids the collection has handed out
Ids(c) == {NoId, IdDesconocido} \cup 1..autoId[c]
\* the same without the id that names no document
IdsDados(c) == {NoId} \cup 1..autoId[c]

CrearGrupoCon(nombres, descripciones, files) ==
  \E nombre_grupo \in nombres, id_usuario_creador \in {NoId} \cup Users,
     descripcion \in descripciones, file \in files :
   \E fail \in FailPoints(crear_grupo(Cur, nombre_grupo, id_usuario_creador, "x", descripcion, file, 0)) :
    Handle([route |-> "/crear-grupo", nombre_grupo |-> nombre_grupo,
            id_usuario_creador |-> id_usuario_creador, color_hex |-> "x",
            descripcion |-> descripcion, file |-> file, fail |-> fail],
           crear_grupo(Cur, nombre_grupo, id_usuario_creador, "x", descripcion, file, fail))

\* well-formed /crear-grupo requests without an image
CrearGrupo == CrearGrupoCon({"x"}, {"x"}, {FALSE})

EliminarGrupo ==
  \E id_grupo \in Ids("GRUPO") :
   \E fail \in FailPoints(eliminar_grupo(Cur, id_grupo, 0)) :
    Handle([route |-> "/eliminar-grupo", id_grupo |-> id_grupo, fail |-> fail],
           eliminar_grupo(Cur, id_grupo, fail))

InvitarUsuario ==
  \E id_grupo \in IdsDados("GRUPO"), celular \in Celulares,
     id_usuario_emisor \in {NoId, 1} :
   \E fail \in FailPoints(invitar_usuario(Cur, id_grupo, celular, id_usuario_emisor, 0)) :
    Handle([route |-> "/invitar-usuario", id_grupo |-> id_grupo, celular |-> celular,
            id_usuario_emisor |-> id_usuario_emisor, fail |-> fail],
           invitar_usuario(Cur, id_grupo, celular, id_usuario_emisor, fail))

ResponderInvitacion ==
  \E id_InvitacionGrupo \in Ids("InvitacionGrupo"), aceptar \in Aceptar :
   \E fail \in FailPoints(responder_invitacion(Cur, id_InvitacionGrupo, aceptar, 0)) :
    Handle([route |-> "/responder-invitacion", id_InvitacionGrupo |-> id_InvitacionGrupo,
            aceptar |-> aceptar, fail |-> fail],
           responder_invitacion(Cur, id_InvitacionGrupo, aceptar, fail))

GrupoEliminarUsuario ==
  \E id_grupo \in IdsDados("GRUPO"), id_usuario \in {NoId} \cup Users :
   \E fail \in FailPoints(grupo_eliminar_usuario(Cur, id_grupo, id_usuario, 0)) :
    Handle([route |-> "/grupo/eliminar-usuario", id_grupo |-> id_grupo,
            id_usuario |-> id_usuario, fail |-> fail],
           grupo_eliminar_usuario(Cur, id_grupo, id_usuario, fail))

RegisterDe(nombres, correos, tipos) ==
  \E nombre \in nombres, correo \in correos, tipo_usuario \in tipos :
   \E fail \in FailPoints(register(Cur, nombre, correo, "pw", Celular(correo), tipo_usuario, 0)) :
    Handle([route |-> "/register", nombre |-> nombre, correo |-> correo, password |-> "pw",
            numero_telefono |-> Celular(correo), tipo_usuario |-> tipo_usuario, fail |-> fail],
           register(Cur, nombre, correo, "pw", Celular(correo), tipo_usuario, fail))

RegisterCon(tipos) == RegisterDe(Texts, {NoId} \cup Users, tipos)

\* /register requests of standard users
Register == RegisterCon({JSNum("1")})

\* well-formed /register requests of the first person
RegisterPrimero == RegisterDe({"x"}, {1}, {JSNum("1")})

Login ==
  \E correo \in {NoId} \cup Users, password \in {undefined, "pw", "bad"} :
   \E fail \in FailPoints(login(Cur, correo, password, 0)) :
    Handle([route |-> "/login", correo |-> correo, password |-> password, fail |-> fail],
           login(Cur, correo, password, fail))

\* the person ids a request can name: none, an unknown one, the registered ones
Uids == {NoId, IdDesconocido} \cup DOMAIN auth

DesactivarPerfil ==
  \E id_persona \in Uids :
   \E fail \in FailPoints(desactivar_perfil(Cur, id_persona, 0)) :
    Handle([route |-> "/desactivar-perfil", id_persona |-> id_persona, fail |-> fail],
           desactivar_perfil(Cur, id_persona, fail))

ActivarPerfil ==
  \E id_persona \in Uids :
   \E fail \in FailPoints(activar_perfil(Cur, id_persona, 0)) :
    Handle([route |-> "/activar-perfil", id_persona |-> id_persona, fail |-> fail],
           activar_perfil(Cur, id_persona, fail))

UpdateProfile ==
  \E uid \in Uids, nombre \in Texts, file \in BOOLEAN :
   \E fail \in FailPoints(update_profile(Cur, uid, nombre, file, 0)) :
    Handle([route |-> "/update-profile", uid |-> uid, nombre |-> nombre, file |-> file,
            fail |-> fail],
           update_profile(Cur, uid, nombre, file, fail))

InitGrupo == InitWith(Registered, Accounts)

NextGrupo ==
  \/ CrearGrupo
  \/ InvitarUsuario
  \/ ResponderInvitacion
  \/ GrupoEliminarUsuario

SpecGrupo == InitGrupo /\ [][NextGrupo]_vars

GuardarUbicacion ==
  \E id_usuario \in {NoId, 1}, latitud \in {"x"}, id_gravedad \in {NoId, 1},
     geo \in {"", "x"} :
   \E fail \in FailPoints(guardar_ubicacion(Cur, id_usuario, latitud, "x", id_gravedad, "x", geo, 0)) :
    Handle([route |-> "/guardar-ubicacion", id_usuario |-> id_usuario, latitud |-> latitud,
            longitud |-> "x", id_gravedad |-> id_gravedad, mensaje |-> "x", geo |-> geo,
            fail |-> fail],
           guardar_ubicacion(Cur, id_usuario, latitud, "x", id_gravedad, "x", geo, fail))

GuardarContacto ==
  \E nombres \in {"x"}, celular \in CelularesContacto, id_usuario \in {NoId} \cup Users :
   \E fail \in FailPoints(guardar_contacto(Cur, nombres, celular, id_usuario, 0)) :
    Handle([route |-> "/guardar-contacto", nombres |-> nombres, celular |-> celular,
            id_usuario |-> id_usuario, fail |-> fail],
           guardar_contacto(Cur, nombres, celular, id_usuario, fail))

EditarContacto ==
  \E nombres \in {"x"}, celular \in CelularesContacto, id_contacto \in Ids("CONTACTO") :
   \E fail \in FailPoints(editar_contacto(Cur, nombres, celular, id_contacto, 0)) :
    Handle([route |-> "/editar-contacto", nombres |-> nombres, celular |-> celular,
            id_contacto |-> id_contacto, fail |-> fail],
           editar_contacto(Cur, nombres, celular, id_contacto, fail))

BorrarContacto ==
  \E id_contacto \in Ids("CONTACTO") :
   \E fail \in FailPoints(borrar_contacto(Cur, id_contacto, 0)) :
    Handle([route |-> "/borrar-contacto", id_contacto |-> id_contacto, fail |-> fail],
           borrar_contacto(Cur, id_contacto, fail))

DerivarAlerta ==
  \E id_alerta \in Ids("ALERTA"), id_departamento \in {NoId, 1} :
   \E fail \in FailPoints(derivar_alerta(Cur, id_alerta, id_departamento, 1, 0)) :
    Handle([route |-> "/derivar-alerta", id_alerta |-> id_alerta,
            id_departamento |-> id_departamento, id_funcionario |-> 1, fail |-> fail],
           derivar_alerta(Cur, id_alerta, id_departamento, 1, fail))

\* alerts and contacts: the persons of Users are registered
InitAlerta == InitWith(Registered, Accounts)

NextAlerta ==
  \/ GuardarContacto
  \/ EditarContacto
  \/ BorrarContacto
  \/ GuardarUbicacion
  \/ DerivarAlerta

SpecAlerta == InitAlerta /\ [][NextAlerta]_vars

\* accounts: from the empty store
InitCuenta == InitWith(EmptyDb, EmptyColl)

NextCuenta ==
  \/ Register
  \/ Login
  \/ DesactivarPerfil
  \/ ActivarPerfil
  \/ UpdateProfile

SpecCuenta == InitCuenta /\ [][NextCuenta]_vars

ListarUbicacionActual ==
  \E id_persona \in {NoId} \cup Users, id_grupo \in IdsDados("GRUPO"),
     id_persona_buscar \in {NoId, IdDesconocido, MaxUsers} :
   \E fail \in FailPoints(listar_ubicacion_actual(Cur, id_persona, id_grupo, id_persona_buscar, 0)) :
    Handle([route |-> "/listar-ubicacion-actual", id_persona |-> id_persona,
            id_grupo |-> id_grupo, id_persona_buscar |-> id_persona_buscar, fail |-> fail],
           listar_ubicacion_actual(Cur, id_persona, id_grupo, id_persona_buscar, fail))

\* the current location that the client application of person u has stored
UbicacionDoc(u) == [id_usuario |-> u, latitud |-> "x", longitud |-> "x"]

\* shared locations: the persons of Users are registered and the client
\* application of each has stored its current location; the routes read
\* UBICACION_ACTUAL and never write it
InitUbicacion ==
  InitWith([Registered EXCEPT !.UBICACION_ACTUAL = [u \in Users |-> UbicacionDoc(u)]],
           Accounts)

NextUbicacion ==
  \/ CrearGrupo
  \/ InvitarUsuario
  \/ ResponderInvitacion
  \/ ListarUbicacionActual

SpecUbicacion == InitUbicacion /\ [][NextUbicacion]_vars

\* `tipo` of a JSON body: absent, the four kinds, an unknown kind, a text
Tipos == {JSUndefined, JSNum("1"), JSNum("2"), JSNum("3"), JSNum("4"), JSNum("5"), JSStr("1")}

ActualizarUbicacionSeleccion ==
  \E id_persona \in {NoId} \cup Users, tipo \in Tipos :
   \* id_grupo is sent with tipo 2 and id_persona_buscar with tipo 1
   \E id_grupo \in IF tipo = JSNum("2") THEN IdsDados("GRUPO") ELSE {NoId},
      id_persona_buscar \in IF tipo = JSNum("1") THEN {NoId, MaxUsers} ELSE {NoId} :
   \E fail \in FailPoints(actualizar_ubicacion_seleccion(Cur, id_persona, tipo, id_grupo, id_persona_buscar, 0)) :
    Handle([route |-> "/actualizar-ubicacion-seleccion", id_persona |-> id_persona,
            tipo |-> tipo, id_grupo |-> id_grupo, id_persona_buscar |-> id_persona_buscar,
            fail |-> fail],
           actualizar_ubicacion_seleccion(Cur, id_persona, tipo, id_grupo, id_persona_buscar, fail))

ListarUbicacionSeleccion ==
  \E id_persona \in {NoId} \cup Users :
   \E fail \in FailPoints(listar_ubicacion_seleccion(Cur, id_persona, 0)) :
    Handle([route |-> "/listar-ubicacion-seleccion", id_persona |-> id_persona, fail |-> fail],
           listar_ubicacion_seleccion(Cur, id_persona, fail))

\* location selections: the persons of Users are registered
InitSeleccion == InitWith(Registered, Accounts)

NextSeleccion ==
  \/ CrearGrupo
  \/ EliminarGrupo
  \/ ActualizarUbicacionSeleccion
  \/ ListarUbicacionSeleccion

SpecSeleccion == InitSeleccion /\ [][NextSeleccion]_vars

GuardarClave ==
  \E id_usuario \in {NoId, 1}, id_mensaje \in IdsDados("MENSAJE") :
   \E fail \in FailPoints(guardar_clave(Cur, 1, id_usuario, "x", id_mensaje, 0)) :
    Handle([route |-> "/guardar-clave", id_gravedad |-> 1, id_usuario |-> id_usuario,
            palabra |-> "x", id_mensaje |-> id_mensaje, fail |-> fail],
           guardar_clave(Cur, 1, id_usuario, "x", id_mensaje, fail))

EliminarClave ==
  \E id_clave \in Ids("CLAVE") :
   \E fail \in FailPoints(eliminar_clave(Cur, id_clave, 0)) :
    Handle([route |-> "/eliminar-clave", id_clave |-> id_clave, fail |-> fail],
           eliminar_clave(Cur, id_clave, fail))

InsertarMensaje ==
  \E id_persona \in {NoId} \cup Users, mensaje \in Texts :
   \E fail \in FailPoints(insertar_mensaje(Cur, id_persona, mensaje, 0)) :
    Handle([route |-> "/insertar-mensaje", id_persona |-> id_persona, mensaje |-> mensaje,
            fail |-> fail],
           insertar_mensaje(Cur, id_persona, mensaje, fail))

EliminarMensaje ==
  \E id_mensaje \in Ids("MENSAJE") :
   \E fail \in FailPoints(eliminar_mensaje(Cur, id_mensaje, 0)) :
    Handle([route |-> "/eliminar-mensaje", id_mensaje |-> id_mensaje, fail |-> fail],
           eliminar_mensaje(Cur, id_mensaje, fail))

\* `tipo_usuario` of a request body: absent, the three roles, an unknown
\* role, and the text a form-encoded body carries
TiposUsuario == {JSUndefined, JSNum("1"), JSNum("2"), JSNum("3"), JSNum("4"), JSStr("1")}

\* /register requests of every role
RegisterRoles == RegisterDe(Texts, {NoId} \cup Users, TiposUsuario)

\* registration: from the empty store
InitRegistro == InitWith(EmptyDb, EmptyColl)

NextRegistro == RegisterRoles

SpecRegistro == InitRegistro /\ [][NextRegistro]_vars

\* messages and keys: from the empty store
InitMensaje == InitWith(EmptyDb, EmptyColl)

NextMensaje ==
  \/ RegisterPrimero
  \/ InsertarMensaje
  \/ EliminarMensaje
  \/ GuardarClave
  \/ EliminarClave

SpecMensaje == InitMensaje /\ [][NextMensaje]_vars

(***************************************************************************)
(* Overlapping requests                                                    *)
(***************************************************************************)
\* request p moves on to await pc, having read `leido`
Sigue(p, pc, leido) ==
  enCurso' = [enCurso EXCEPT ![p] = leido @@ [@ EXCEPT !.pc = pc]]

\* request p is answered
Responde(p, status) ==
  enCurso' = [enCurso EXCEPT ![p] = [@ EXCEPT !.pc = "respondido", !.status = status]]

\* request p is at await pc of its route
En(p, route, pc) ==
  /\ enCurso[p].pc = pc
  /\ enCurso[p].route = route

\* the store becomes s
Guarda(s) == db' = s.db /\ autoId' = s.autoId /\ auth' = s.auth

\* In the actions below a read leaves db, autoId and auth unchanged, and the
\* history of whole requests (req, res, calls, pre, ultimoCambio) plays no part.

\* POST /responder-invitacion: the request arrives and is validated
RI_Recibir(p) ==
  /\ enCurso[p] = [pc |-> "libre"]
  /\ \E id_InvitacionGrupo \in Ids("InvitacionGrupo"), aceptar \in Aceptar :
       enCurso' = [enCurso EXCEPT ![p] =
         [route |-> "/responder-invitacion", id_InvitacionGrupo |-> id_InvitacionGrupo,
          aceptar |-> aceptar,
          pc |-> IF FalsyId(id_InvitacionGrupo) \/ aceptar = JSUndefined
                 THEN "respondido" ELSE "get",
          status |-> IF FalsyId(id_InvitacionGrupo) \/ aceptar = JSUndefined
                     THEN 400 ELSE 0]]
  /\ UNCHANGED <<db, autoId, auth, req, res, calls, pre, ultimoCambio>>

\* await invitacionRef.get() and the checks on what it read
RI_Get(p) ==
  /\ En(p, "/responder-invitacion", "get")
  /\ LET id == enCurso[p].id_InvitacionGrupo IN
       IF id \notin DOMAIN db.InvitacionGrupo THEN Responde(p, 200)
       ELSE IF InvitacionUtilizada(db.InvitacionGrupo[id]) THEN Responde(p, 400)
       ELSE Sigue(p, IF Truthy(enCurso[p].aceptar) THEN "query" ELSE "rechazar",
                  [invitacionData |-> db.InvitacionGrupo[id]])
  /\ UNCHANGED <<db, autoId, auth, req, res, calls, pre, ultimoCambio>>

\* await the membership query
RI_Query(p) ==
  /\ En(p, "/responder-invitacion", "query")
  /\ LET inv == enCurso[p].invitacionData IN
       IF Membresias(Cur, inv.id_grupo, inv.id_usuario) # {} THEN Responde(p, 400)
       ELSE Sigue(p, "set", <<>>)
  /\ UNCHANGED <<db, autoId, auth, req, res, calls, pre, ultimoCambio>>

\* await grupoPersonaRef.set(nuevoGrupoPersona)
RI_Set(p) ==
  /\ En(p, "/responder-invitacion", "set")
  /\ LET inv == enCurso[p].invitacionData IN
       Guarda(SetDoc(Cur, "GRUPO_PERSONA", NewId(Cur, "GRUPO_PERSONA"),
                     [id_grupo |-> inv.id_grupo, id_usuario |-> inv.id_usuario]))
  /\ Sigue(p, "update", <<>>)
  /\ UNCHANGED <<req, res, calls, pre, ultimoCambio>>

\* await invitacionRef.update({aceptado: true, estado: false})
RI_Update(p) ==
  /\ En(p, "/responder-invitacion", "update")
  /\ Guarda(UpdateDoc(Cur, "InvitacionGrupo", enCurso[p].id_InvitacionGrupo,
                       [aceptado |-> TRUE, estado |-> FALSE]))
  /\ Responde(p, 200)
  /\ UNCHANGED <<req, res, calls, pre, ultimoCambio>>

\* await invitacionRef.update({aceptado: false, estado: false})
RI_Rechazar(p) ==
  /\ En(p, "/responder-invitacion", "rechazar")
  /\ Guarda(UpdateDoc(Cur, "InvitacionGrupo", enCurso[p].id_InvitacionGrupo,
                       [aceptado |-> FALSE, estado |-> FALSE]))
  /\ Responde(p, 200)
  /\ UNCHANGED <<req, res, calls, pre, ultimoCambio>>

\* the store with nothing written and the persons of Users registered
StoreRegistrado ==
  [db |-> Registered, autoId |-> [c \in Collections |-> 0], auth |-> Accounts]

\* the store after the first person created a group and invited the second
StoreConInvitacion ==
  invitar_usuario(crear_grupo(StoreRegistrado, "x", 1, "x", "x", FALSE, 0).s,
                  1, Celular(MaxUsers), 1, 0).s

\* overlapping answers to an invitation: one invitation is pending
NextResponder ==
  \E p \in Procs :
    \/ RI_Recibir(p)
    \/ RI_Get(p)
    \/ RI_Query(p)
    \/ RI_Set(p)
    \/ RI_Update(p)
    \/ RI_Rechazar(p)

SpecResponder == InitEn(StoreConInvitacion) /\ [][NextResponder]_vars

\* POST /invitar-usuario: the request arrives and is validated
IU_Recibir(p) ==
  /\ enCurso[p] = [pc |-> "libre"]
  /\ \E id_grupo \in Ids("GRUPO"), celular \in Celulares, id_usuario_emisor \in {NoId, 1} :
       LET falta == FalsyId(id_grupo) \/ FalsyId(celular) \/ FalsyId(id_usuario_emisor) IN
       enCurso' = [enCurso EXCEPT ![p] =
         [route |-> "/invitar-usuario", id_grupo |-> id_grupo, celular |-> celular,
          id_usuario_emisor |-> id_usuario_emisor,
          pc |-> IF falta THEN "respondido" ELSE "persona",
          status |-> IF falta THEN 400 ELSE 0]]
  /\ UNCHANGED <<db, autoId, auth, req, res, calls, pre, ultimoCambio>>

\* await the PERSONA query by numero_telefono
IU_Persona(p) ==
  /\ En(p, "/invitar-usuario", "persona")
  /\ LET usuarios == {u \in DOMAIN db.PERSONA :
                        db.PERSONA[u].numero_telefono = enCurso[p].celular} IN
       IF usuarios = {} THEN Responde(p, 200)
       ELSE Sigue(p, "miembro", [id_usuario |-> Min(usuarios)])
  /\ UNCHANGED <<db, autoId, auth, req, res, calls, pre, ultimoCambio>>

\* await the GRUPO_PERSONA query
IU_Miembro(p) ==
  /\ En(p, "/invitar-usuario", "miembro")
  /\ IF Membresias(Cur, enCurso[p].id_grupo, enCurso[p].id_usuario) # {}
     THEN Responde(p, 200)
     ELSE Sigue(p, "pendiente", <<>>)
  /\ UNCHANGED <<db, autoId, auth, req, res, calls, pre, ultimoCambio>>

\* await the InvitacionGrupo query for a pending invitation
IU_Pendiente(p) ==
  /\ En(p, "/invitar-usuario", "pendiente")
  /\ IF Pendientes(Cur, enCurso[p].id_grupo, enCurso[p].id_usuario) # {}
     THEN Responde(p, 200)
     ELSE Sigue(p, "set", <<>>)
  /\ UNCHANGED <<db, autoId, auth, req, res, calls, pre, ultimoCambio>>

\* await invitacionRef.set(nuevaInvitacion)
IU_Set(p) ==
  /\ En(p, "/invitar-usuario", "set")
  /\ Guarda(SetDoc(Cur, "InvitacionGrupo", NewId(Cur, "InvitacionGrupo"),
                    [id_grupo |-> enCurso[p].id_grupo, id_usuario |-> enCurso[p].id_usuario,
                     id_usuario_emisor |-> enCurso[p].id_usuario_emisor,
                     aceptado |-> FALSE, estado |-> TRUE]))
  /\ Responde(p, 201)
  /\ UNCHANGED <<req, res, calls, pre, ultimoCambio>>

\* the store after the first person created a group
StoreConGrupo == crear_grupo(StoreRegistrado, "x", 1, "x", "x", FALSE, 0).s

\* overlapping invitations to a group
NextInvitar ==
  \E p \in Procs :
    \/ IU_Recibir(p)
    \/ IU_Persona(p)
    \/ IU_Miembro(p)
    \/ IU_Pendiente(p)
    \/ IU_Set(p)

SpecInvitar == InitEn(StoreConGrupo) /\ [][NextInvitar]_vars

\* DELETE /eliminar-mensaje: the request arrives; doc(undefined) throws
EM_Recibir(p) ==
  /\ enCurso[p] = [pc |-> "libre"]
  /\ \E id_mensaje \in Ids("MENSAJE") :
       enCurso' = [enCurso EXCEPT ![p] =
         [route |-> "/eliminar-mensaje", id_mensaje |-> id_mensaje,
          pc |-> IF FalsyId(id_mensaje) THEN "respondido" ELSE "get",
          status |-> IF FalsyId(id_mensaje) THEN 500 ELSE 0]]
  /\ UNCHANGED <<db, autoId, auth, req, res, calls, pre, ultimoCambio>>

\* await mensajeRef.get()
EM_Get(p) ==
  /\ En(p, "/eliminar-mensaje", "get")
  /\ IF enCurso[p].id_mensaje \notin DOMAIN db.MENSAJE THEN Responde(p, 404)
     ELSE Sigue(p, "otros", [id_persona |-> db.MENSAJE[enCurso[p].id_mensaje].id_persona])
  /\ UNCHANGED <<db, autoId, auth, req, res, calls, pre, ultimoCambio>>

\* await the query for the other messages of the person
EM_Otros(p) ==
  /\ En(p, "/eliminar-mensaje", "otros")
  /\ LET otros == OtrosMensajes(Cur, enCurso[p].id_persona, enCurso[p].id_mensaje) IN
       IF otros = {} THEN Responde(p, 400)
       ELSE Sigue(p, "claves", [mensajeDeReemplazo |-> Min(otros)])
  /\ UNCHANGED <<db, autoId, auth, req, res, calls, pre, ultimoCambio>>

\* await the CLAVE query
EM_Claves(p) ==
  /\ En(p, "/eliminar-mensaje", "claves")
  /\ Sigue(p, "batch", [claves |-> ClavesDelMensaje(Cur, enCurso[p].id_mensaje)])
  /\ UNCHANGED <<db, autoId, auth, req, res, calls, pre, ultimoCambio>>

\* await batch.commit()
EM_Batch(p) ==
  /\ En(p, "/eliminar-mensaje", "batch")
  /\ Guarda(ReasignarClaves(Cur, enCurso[p].claves, enCurso[p].mensajeDeReemplazo))
  /\ Sigue(p, "delete", <<>>)
  /\ UNCHANGED <<req, res, calls, pre, ultimoCambio>>

\* await mensajeRef.delete()
EM_Delete(p) ==
  /\ En(p, "/eliminar-mensaje", "delete")
  /\ Guarda(DeleteDocs(Cur, "MENSAJE", {enCurso[p].id_mensaje}))
  /\ Responde(p, 200)
  /\ UNCHANGED <<req, res, calls, pre, ultimoCambio>>

\* the store after the first person registered, added a second message and
\* saved one key for each message
StoreConMensajes ==
  LET s0 == [db |-> EmptyDb, autoId |-> [c \in Collections |-> 0], auth |-> EmptyColl]
      s1 == register(s0, "x", 1, "pw", Celular(1), JSNum("1"), 0).s
      m1 == Min(DOMAIN s1.db.MENSAJE)
      s2 == insertar_mensaje(s1, 1, "x", 0).s
      m2 == Min(DOMAIN s2.db.MENSAJE \ {m1})
      s3 == guardar_clave(s2, 1, 1, "x", m1, 0).s
  IN guardar_clave(s3, 1, 1, "x", m2, 0).s

\* overlapping deletions of messages
NextEliminar ==
  \E p \in Procs :
    \/ EM_Recibir(p)
    \/ EM_Get(p)
    \/ EM_Otros(p)
    \/ EM_Claves(p)
    \/ EM_Batch(p)
    \/ EM_Delete(p)

SpecEliminar == InitEn(StoreConMensajes) /\ [][NextEliminar]_vars

\* POST /actualizar-ubicacion-seleccion: the request arrives, is validated
\* and ubicacionSeleccionData is prepared
US_Recibir(p) ==
  /\ enCurso[p] = [pc |-> "libre"]
  /\ \E id_persona \in {NoId} \cup Users, tipo \in Tipos :
      \E id_grupo \in IF tipo = JSNum("2") THEN IdsDados("GRUPO") ELSE {NoId},
         id_persona_buscar \in IF tipo = JSNum("1") THEN {NoId, MaxUsers} ELSE {NoId} :
       LET invalido == FalsyId(id_persona) \/ tipo.type = "undefined" \/ ~TipoValido(tipo) IN
       enCurso' = [enCurso EXCEPT ![p] =
         [route |-> "/actualizar-ubicacion-seleccion", id_persona |-> id_persona,
          tipo |-> tipo, id_grupo |-> id_grupo,
          ubicacionSeleccionData |->
            IF invalido THEN <<>>
            ELSE UbicacionSeleccionData(id_persona, tipo, id_grupo, id_persona_buscar),
          pc |-> IF invalido THEN "respondido" ELSE "query",
          status |-> IF invalido THEN 400 ELSE 0]]
  /\ UNCHANGED <<db, autoId, auth, req, res, calls, pre, ultimoCambio>>

\* await ubicacionRef.get()
US_Query(p) ==
  /\ En(p, "/actualizar-ubicacion-seleccion", "query")
  /\ LET encontrados == SeleccionDe(Cur, enCurso[p].id_persona) IN
       IF encontrados # {} THEN Sigue(p, "update", [ubicacionDoc |-> Min(encontrados)])
       ELSE Sigue(p, "add", <<>>)
  /\ UNCHANGED <<db, autoId, auth, req, res, calls, pre, ultimoCambio>>

\* await ubicacionDoc.ref.update(ubicacionSeleccionData); tipo 2 without
\* id_grupo leaves an undefined field, which the store rejects
US_Update(p) ==
  /\ En(p, "/actualizar-ubicacion-seleccion", "update")
  /\ IF enCurso[p].tipo.str = "2" /\ FalsyId(enCurso[p].id_grupo) THEN UNCHANGED <<db, autoId, auth>> /\ Responde(p, 500)
     ELSE /\ Guarda(UpdateDoc(Cur, "UBICACION_SELECCION", enCurso[p].ubicacionDoc,
                              enCurso[p].ubicacionSeleccionData))
          /\ Responde(p, 200)
  /\ UNCHANGED <<req, res, calls, pre, ultimoCambio>>

\* await db.collection('UBICACION_SELECCION').add(ubicacionSeleccionData)
US_Add(p) ==
  /\ En(p, "/actualizar-ubicacion-seleccion", "add")
  /\ IF enCurso[p].tipo.str = "2" /\ FalsyId(enCurso[p].id_grupo) THEN UNCHANGED <<db, autoId, auth>> /\ Responde(p, 500)
     ELSE /\ Guarda(SetDoc(Cur, "UBICACION_SELECCION", NewId(Cur, "UBICACION_SELECCION"),
                           enCurso[p].ubicacionSeleccionData))
          /\ Responde(p, 200)
  /\ UNCHANGED <<req, res, calls, pre, ultimoCambio>>

\* overlapping selections: a group exists and nobody has selected yet
NextSeleccionar ==
  \E p \in Procs :
    \/ US_Recibir(p)
    \/ US_Query(p)
    \/ US_Update(p)
    \/ US_Add(p)

SpecSeleccionar == InitEn(StoreConGrupo) /\ [][NextSeleccionar]_vars

\* PUT /update-profile of routes/usuario/datos_usuario.js and PUT
\* /editar-perfil of routes/admin/admin_usuario.js are the same handler, the
\* person being named uid in the first and id_persona in the second
PerfilRutas == {"/update-profile", "/editar-perfil"}

\* res.status(status).json(...) of a profile request; respuestas counts the
\* responses sent
UP_Responde(p, status) ==
  enCurso' = [enCurso EXCEPT ![p] =
    [@ EXCEPT !.pc = "respondido", !.status = status, !.respuestas = @ + 1]]

\* the request arrives: validation, updateData, and with an image the
\* stream is created, its two listeners registered and stream.end() called,
\* after which the handler returns without a response
UP_Recibir(p) ==
  /\ enCurso[p] = [pc |-> "libre"]
  /\ \E route \in PerfilRutas, uid \in {NoId, IdDesconocido, 1}, nombre \in Texts,
        file \in BOOLEAN :
       LET updateData == IF FalsyText(nombre) THEN <<>> ELSE [nombre |-> nombre]
           responde400 == FalsyId(uid) \/ (~file /\ FalsyText(nombre))
       IN
       enCurso' = [enCurso EXCEPT ![p] =
         [route |-> route, uid |-> uid, file |-> file, updateData |-> updateData,
          pc |-> IF responde400 THEN "respondido" ELSE IF file THEN "stream" ELSE "update",
          status |-> IF responde400 THEN 400 ELSE 0,
          respuestas |-> IF responde400 THEN 1 ELSE 0]]
  /\ UNCHANGED <<db, autoId, auth, req, res, calls, pre, ultimoCambio>>

\* the upload fails: stream.on('error') answers 500
UP_StreamError(p) ==
  /\ enCurso[p].pc = "stream"
  /\ UP_Responde(p, 500)
  /\ UNCHANGED <<db, autoId, auth, req, res, calls, pre, ultimoCambio>>

\* the upload ends: the async listener of 'finish' starts
UP_StreamFinish(p) ==
  /\ enCurso[p].pc = "stream"
  /\ Sigue(p, "makePublic", <<>>)
  /\ UNCHANGED <<db, autoId, auth, req, res, calls, pre, ultimoCambio>>

\* await file.makePublic() inside the listener, which has no try block: a
\* rejection rejects the listener's promise, which nobody awaits, and no
\* response is sent
UP_MakePublic(p) ==
  /\ enCurso[p].pc = "makePublic"
  /\ \E falla \in BOOLEAN :
       Sigue(p, IF falla THEN "rechazada" ELSE "updateImagen", <<>>)
  /\ UNCHANGED <<db, autoId, auth, req, res, calls, pre, ultimoCambio>>

\* await db.collection('PERSONA').doc(uid).update(updateData) inside the
\* listener; update() of a missing document rejects
UP_UpdateImagen(p) ==
  /\ enCurso[p].pc = "updateImagen"
  /\ \E falla \in BOOLEAN :
       IF falla \/ enCurso[p].uid \notin DOMAIN db.PERSONA
       THEN UNCHANGED <<db, autoId, auth>> /\ Sigue(p, "rechazada", <<>>)
       ELSE /\ Guarda(UpdateDoc(Cur, "PERSONA", enCurso[p].uid,
                                [imagen_usuario |-> "url"] @@ enCurso[p].updateData))
            /\ UP_Responde(p, 200)
  /\ UNCHANGED <<req, res, calls, pre, ultimoCambio>>

\* without an image: await update(updateData) inside the try block, whose
\* catch answers 500
UP_Update(p) ==
  /\ enCurso[p].pc = "update"
  /\ enCurso[p].route \in PerfilRutas
  /\ \E falla \in BOOLEAN :
       IF falla \/ enCurso[p].uid \notin DOMAIN db.PERSONA
       THEN UNCHANGED <<db, autoId, auth>> /\ UP_Responde(p, 500)
       ELSE /\ Guarda(UpdateDoc(Cur, "PERSONA", enCurso[p].uid, enCurso[p].updateData))
            /\ UP_Responde(p, 200)
  /\ UNCHANGED <<req, res, calls, pre, ultimoCambio>>

\* profile updates: the persons of Users are registered
NextPerfil ==
  \E p \in Procs :
    \/ UP_Recibir(p)
    \/ UP_StreamError(p)
    \/ UP_StreamFinish(p)
    \/ UP_MakePublic(p)
    \/ UP_UpdateImagen(p)
    \/ UP_Update(p)

\* the event loop runs every callback that is ready, and every remote call
\* settles
SpecPerfilJusto == InitEn(StoreRegistrado) /\ [][NextPerfil]_vars /\ \A p \in Procs :
  WF_vars(UP_StreamError(p) \/ UP_StreamFinish(p) \/ UP_MakePublic(p)
          \/ UP_UpdateImagen(p) \/ UP_Update(p))

(***************************************************************************)
(* Group invitations                                                       *)
(***************************************************************************)
Pendiente(inv) == inv.estado /\ ~inv.aceptado

\* in store d, user u belongs to group g
EsMiembro(d, g, u) ==
  \E m \in DOMAIN d.GRUPO_PERSONA :
    d.GRUPO_PERSONA[m].id_grupo = g /\ d.GRUPO_PERSONA[m].id_usuario = u

\* in store d, user u has a pending invitation to group g
TienePendiente(d, g, u) ==
  \E i \in DOMAIN d.InvitacionGrupo :
    /\ d.InvitacionGrupo[i].id_grupo = g
    /\ d.InvitacionGrupo[i].id_usuario = u
    /\ Pendiente(d.InvitacionGrupo[i])

\* the last request was /responder-invitacion for an existing invitation and
\* no remote call of it failed
RespondioInvitacion ==
  /\ req.route = "/responder-invitacion"
  /\ req.fail = 0
  /\ req.id_InvitacionGrupo \in DOMAIN pre.InvitacionGrupo

\* C7: once an invitation has estado false, every /responder-invitacion for
\* it is answered 400 and changes neither the invitation nor GRUPO_PERSONA,
\* and no request makes an answered invitation pending again.
Thm_C7 ==
  /\ (RespondioInvitacion /\ ~pre.InvitacionGrupo[req.id_InvitacionGrupo].estado)
       => /\ res.status = 400
          /\ db.InvitacionGrupo = pre.InvitacionGrupo
          /\ db.GRUPO_PERSONA = pre.GRUPO_PERSONA
  /\ \A i \in DOMAIN pre.InvitacionGrupo :
       ~pre.InvitacionGrupo[i].estado
         => i \in DOMAIN db.InvitacionGrupo /\ ~Pendiente(db.InvitacionGrupo[i])

\* an answered invitation was answered again, with aceptar true
Wit_C7 ==
  /\ RespondioInvitacion
  /\ ~pre.InvitacionGrupo[req.id_InvitacionGrupo].estado
  /\ ~pre.InvitacionGrupo[req.id_InvitacionGrupo].aceptado
  /\ req.aceptar = JSBool(TRUE)
  /\ res.status = 400

\* the last request accepted (aceptar true) a pending invitation
AceptoPendiente ==
  /\ RespondioInvitacion
  /\ req.aceptar \in {JSBool(TRUE), JSStr("true")}
  /\ Pendiente(pre.InvitacionGrupo[req.id_InvitacionGrupo])

\* C8: accepting a pending invitation of a user who is not a member adds
\* exactly one GRUPO_PERSONA document, for the invitation's group and user,
\* and sets the invitation to aceptado true, estado false; if the user is a
\* member already the answer is 400 and nothing changes.
Thm_C8 ==
  AceptoPendiente =>
    LET i == req.id_InvitacionGrupo
        inv == pre.InvitacionGrupo[i]
        nuevos == (DOMAIN db.GRUPO_PERSONA) \ (DOMAIN pre.GRUPO_PERSONA)
    IN IF ~EsMiembro(pre, inv.id_grupo, inv.id_usuario)
       THEN /\ res.status = 200
            /\ Cardinality(nuevos) = 1
            /\ \A m \in nuevos :
                 db.GRUPO_PERSONA[m] = [id_grupo |-> inv.id_grupo, id_usuario |-> inv.id_usuario]
            /\ \A m \in DOMAIN pre.GRUPO_PERSONA :
                 m \in DOMAIN db.GRUPO_PERSONA /\ db.GRUPO_PERSONA[m] = pre.GRUPO_PERSONA[m]
            /\ db.InvitacionGrupo[i].aceptado /\ ~db.InvitacionGrupo[i].estado
       ELSE res.status = 400 /\ db = pre

\* a pending invitation of a non-member was accepted
Wit_C8 ==
  /\ AceptoPendiente
  /\ res.status = 200
  /\ ~EsMiembro(pre, pre.InvitacionGrupo[req.id_InvitacionGrupo].id_grupo,
                pre.InvitacionGrupo[req.id_InvitacionGrupo].id_usuario)

\* a pending invitation of a user who is a member already was accepted
Wit_C8_miembro ==
  /\ AceptoPendiente
  /\ res.status = 400
  /\ EsMiembro(pre, pre.InvitacionGrupo[req.id_InvitacionGrupo].id_grupo,
               pre.InvitacionGrupo[req.id_InvitacionGrupo].id_usuario)

\* C9: rejecting a pending invitation (aceptar false, as the JSON boolean
\* or as the text 'false') sets it to estado false, aceptado false and adds
\* no GRUPO_PERSONA membership.
Claim_C9 ==
  (/\ RespondioInvitacion
   /\ req.aceptar \in {JSBool(FALSE), JSStr("false")}
   /\ Pendiente(pre.InvitacionGrupo[req.id_InvitacionGrupo]))
    => /\ ~db.InvitacionGrupo[req.id_InvitacionGrupo].estado
       /\ ~db.InvitacionGrupo[req.id_InvitacionGrupo].aceptado
       /\ db.GRUPO_PERSONA = pre.GRUPO_PERSONA

\* the last request was a complete /invitar-usuario for a registered
\* telephone and no remote call of it failed
InvitoUsuario ==
  /\ req.route = "/invitar-usuario"
  /\ req.fail = 0
  /\ ~FalsyId(req.id_grupo) /\ ~FalsyId(req.celular) /\ ~FalsyId(req.id_usuario_emisor)
  /\ \E p \in DOMAIN pre.PERSONA : pre.PERSONA[p].numero_telefono = req.celular

\* C10: /invitar-usuario answers 400 and creates no invitation when the
\* invited user belongs to the group or has a pending invitation to it;
\* otherwise it answers 201 and creates one pending invitation.
Claim_C10 ==
  InvitoUsuario =>
    LET u == Min({p \in DOMAIN pre.PERSONA : pre.PERSONA[p].numero_telefono = req.celular})
        nuevas == (DOMAIN db.InvitacionGrupo) \ (DOMAIN pre.InvitacionGrupo)
    IN IF EsMiembro(pre, req.id_grupo, u) \/ TienePendiente(pre, req.id_grupo, u)
       THEN res.status = 400 /\ nuevas = {}
       ELSE /\ res.status = 201
            /\ Cardinality(nuevas) = 1
            /\ \A i \in nuevas : Pendiente(db.InvitacionGrupo[i])

(***************************************************************************)
(* Accounts                                                                *)
(***************************************************************************)
\* the last request was a /login with the credentials of account p and no
\* remote call of it failed
LoginDe(p) ==
  /\ req.route = "/login"
  /\ req.fail = 0
  /\ p \in DOMAIN auth
  /\ req.correo = auth[p].email
  /\ req.password = auth[p].password

\* C2: from a successful /desactivar-perfil for p until a successful
\* /activar-perfil for p, every /login with p's credentials is answered 403
\* without persona or perfil data; after a successful /activar-perfil it is
\* answered 200 again.
Thm_C2 ==
  \A p \in DOMAIN ultimoCambio :
    LoginDe(p) =>
      IF ultimoCambio[p]
      THEN res.status = 200
      ELSE res.status = 403 /\ res.keys \cap {"persona", "perfil"} = {}

\* a deactivated person logged in with valid credentials
Wit_C2 ==
  \E p \in DOMAIN ultimoCambio :
    LoginDe(p) /\ ~ultimoCambio[p] /\ res.status = 403

\* a reactivated person logged in
Wit_C2_activado ==
  \E p \in DOMAIN ultimoCambio :
    LoginDe(p) /\ ultimoCambio[p] /\ res.status = 200

\* the last request named, in the field that selects the document to
\* change, an id that no document of the collection has
NombraDesconocido ==
  \/ /\ req.route = "/update-profile"
     /\ ~FalsyId(req.uid) /\ req.uid \notin DOMAIN pre.PERSONA
     /\ req.file \/ ~FalsyText(req.nombre)
  \/ /\ req.route \in {"/desactivar-perfil", "/activar-perfil"}
     /\ ~FalsyId(req.id_persona) /\ req.id_persona \notin DOMAIN pre.PERFIL
  \/ /\ req.route = "/eliminar-grupo"
     /\ ~FalsyId(req.id_grupo) /\ req.id_grupo \notin DOMAIN pre.GRUPO

NoEncontrado ==
  {"No se encontro el perfil con el id_persona", "No se encontro el grupo",
   "No se encontro la alerta", "No se encontro el contacto"}

\* C5: an update, delete or state-change request that names a document id
\* which does not exist is answered 404, or 200 with a not-found message,
\* never 500, and leaves every collection unchanged.
Claim_C5 ==
  (NombraDesconocido /\ req.fail = 0) =>
    /\ res.status = 404 \/ (res.status = 200 /\ res.message \in NoEncontrado)
    /\ db = pre

\* a remote call of the last request failed
LlamadaFallida == Len(calls) > 0 /\ ~calls[Len(calls)].ok

\* C6: when a remote call fails after validation the handler answers 500
\* with the caught error's message; /register answers 500 when creating
\* the authentication account fails and writes no PERSONA, PERFIL or MENSAJE.
Claim_C6 ==
  /\ LlamadaFallida => res.status = 500 /\ "error" \in res.keys
  /\ (req.route = "/register" /\ LlamadaFallida /\ calls[Len(calls)].op = "createUser")
       => db = pre

(***************************************************************************)
(* Alerts and contacts                                                     *)
(***************************************************************************)
\* the WhatsApp sends among the remote calls of the last request
EnviosHechos == {i \in 1..Len(calls) : calls[i].svc = "twilio"}

\* the contacts that user u had, with a celular, before the last request
Destinatarios(u) ==
  {c \in DOMAIN pre.CONTACTO :
     pre.CONTACTO[c].id_usuario = u /\ pre.CONTACTO[c].celular # NoId}

\* C1: when /guardar-ubicacion answers 200 the store holds a new UBICACION
\* and a new ALERTA that references it, the requesting user and the given
\* id_gravedad, and one WhatsApp message with the alert text was sent to
\* every contact of the user that has a celular.
Thm_C1 ==
  (req.route = "/guardar-ubicacion" /\ res.status = 200) =>
    \E u \in (DOMAIN db.UBICACION) \ (DOMAIN pre.UBICACION),
       a \in (DOMAIN db.ALERTA) \ (DOMAIN pre.ALERTA) :
      /\ db.UBICACION[u].id_usuario = req.id_usuario
      /\ db.ALERTA[a].id_ubicacion = u
      /\ db.ALERTA[a].id_usuario = req.id_usuario
      /\ db.ALERTA[a].id_gravedad = req.id_gravedad
      /\ Cardinality(EnviosHechos) = Cardinality(Destinatarios(req.id_usuario))
      /\ \A i \in EnviosHechos : calls[i].ok /\ calls[i].text = db.ALERTA[a].mensaje
      /\ \A c \in Destinatarios(req.id_usuario) :
           Cardinality({i \in EnviosHechos : calls[i].id = pre.CONTACTO[c].celular})
             = Cardinality({d \in Destinatarios(req.id_usuario) :
                              pre.CONTACTO[d].celular = pre.CONTACTO[c].celular})

\* an alert was stored and sent to two contacts with different telephones
\* while another user had a contact too and an earlier location had no alert
Wit_C1 ==
  /\ req.route = "/guardar-ubicacion"
  /\ res.status = 200
  /\ Cardinality({calls[i].id : i \in EnviosHechos}) = 2
  /\ \E a \in DOMAIN db.ALERTA : db.ALERTA[a].id_ubicacion # a

\* the last request omits a field that the API doc of its route requires
OmiteRequerido ==
  \/ /\ req.route = "/guardar-ubicacion"
     /\ \/ FalsyId(req.id_usuario) \/ FalsyText(req.latitud) \/ FalsyText(req.longitud)
        \/ FalsyId(req.id_gravedad) \/ FalsyText(req.mensaje)
  \/ /\ req.route = "/guardar-contacto"
     /\ FalsyText(req.nombres) \/ FalsyId(req.celular) \/ FalsyId(req.id_usuario)
  \/ /\ req.route = "/editar-contacto"
     /\ FalsyId(req.id_contacto) \/ FalsyText(req.nombres) \/ FalsyId(req.celular)
  \/ /\ req.route = "/borrar-contacto"
     /\ FalsyId(req.id_contacto)
  \/ /\ req.route = "/derivar-alerta"
     /\ FalsyId(req.id_alerta) \/ FalsyId(req.id_departamento) \/ FalsyId(req.id_funcionario)
  \/ /\ req.route = "/crear-grupo"
     /\ \/ FalsyText(req.nombre_grupo) \/ FalsyId(req.id_usuario_creador)
        \/ FalsyText(req.color_hex) \/ req.descripcion = undefined

\* C4: a request that omits a field its API doc marks as required is
\* answered 400 and performs no store write and no external call.
Claim_C4 ==
  OmiteRequerido => res.status = 400 /\ db = pre /\ calls = <<>>

(***************************************************************************)
(* Shared locations                                                        *)
(***************************************************************************)
\* persons u and v are members of one same group
CompartenGrupo(d, u, v) ==
  \E m, n \in DOMAIN d.GRUPO_PERSONA :
    /\ d.GRUPO_PERSONA[m].id_grupo = d.GRUPO_PERSONA[n].id_grupo
    /\ d.GRUPO_PERSONA[m].id_usuario = u
    /\ d.GRUPO_PERSONA[n].id_usuario = v

\* C3: /listar-ubicacion-actual returns the current location only of
\* persons who are members of a group that the requesting id_persona
\* belongs to, whatever id_grupo or id_persona_buscar filter is given.
Claim_C3 ==
  req.route = "/listar-ubicacion-actual" =>
    \A i \in 1..Len(res.miembros) :
      res.miembros[i].ubicacion # null =>
        CompartenGrupo(pre, req.id_persona, res.miembros[i].id_usuario)

(***************************************************************************)
(* Deleting a group                                                        *)
(***************************************************************************)
\* the last request was a /eliminar-grupo answered 200 for a group that existed
EliminoGrupo ==
  /\ req.route = "/eliminar-grupo"
  /\ res.status = 200
  /\ req.id_grupo \in DOMAIN pre.GRUPO

\* the group is kept with estado false and no selection points to it any more
GrupoEliminado ==
  EliminoGrupo =>
    /\ req.id_grupo \in DOMAIN db.GRUPO
    /\ db.GRUPO[req.id_grupo].estado = FALSE
    /\ \A x \in DOMAIN pre.UBICACION_SELECCION :
         pre.UBICACION_SELECCION[x].id_grupo = req.id_grupo =>
           /\ x \in DOMAIN db.UBICACION_SELECCION
           /\ db.UBICACION_SELECCION[x].id_grupo = NoId
           /\ db.UBICACION_SELECCION[x].grupo_buscar = 0

\* the same request right after it is answered 200 again and changes nothing
RepiteEliminarGrupo ==
  (/\ EliminoGrupo
   /\ req'.route = "/eliminar-grupo"
   /\ req'.id_grupo = req.id_grupo
   /\ req'.fail = 0)
  => (res'.status = 200 /\ db' = db)

\* C11: when /eliminar-grupo answers 200 for an existing group g, GRUPO g
\* still exists with estado false and every UBICACION_SELECCION that had
\* id_grupo = g has id_grupo null and grupo_buscar 0; repeating the request
\* on the deleted group gives the same state.
Thm_C11 == [](GrupoEliminado) /\ [][RepiteEliminarGrupo]_vars

\* a group that both persons had selected was deleted
Wit_C11 ==
  /\ EliminoGrupo
  /\ pre.GRUPO[req.id_grupo].estado
  /\ Cardinality({x \in DOMAIN pre.UBICACION_SELECCION :
                    pre.UBICACION_SELECCION[x].id_grupo = req.id_grupo}) = 2

\* a group was deleted a second time, after a person had selected it again
Wit_C11_repetido ==
  /\ EliminoGrupo
  /\ ~pre.GRUPO[req.id_grupo].estado
  /\ \E x \in DOMAIN pre.UBICACION_SELECCION :
       pre.UBICACION_SELECCION[x].id_grupo = req.id_grupo

(***************************************************************************)
(* The location selection                                                  *)
(***************************************************************************)
\* the stored selections of person p
SeleccionesDe(d, p) ==
  {x \in DOMAIN d.UBICACION_SELECCION : d.UBICACION_SELECCION[x].id_persona = p}

\* the number a JSON number stands for
NumeroDe(tipo) ==
  CASE tipo.str = "1" -> 1 [] tipo.str = "2" -> 2 [] tipo.str = "3" -> 3
    [] tipo.str = "4" -> 4 [] OTHER -> 0

\* the selection of person p is the one the last successful update stored
SeleccionIntacta(p) ==
  /\ p \in DOMAIN ultimoCambio
  /\ SeleccionesDe(db, p) # {}
  /\ \A x \in SeleccionesDe(db, p) : db.UBICACION_SELECCION[x] = ultimoCambio[p].doc

Wit_C16_sinSeleccion ==
  /\ req.route = "/listar-ubicacion-seleccion"
  /\ res.status = 200
  /\ SeleccionesDe(db, req.id_persona) = {}
  /\ db.UBICACION_SELECCION # EmptyColl

(***************************************************************************)
(* Messages and keys                                                       *)
(***************************************************************************)
\* the messages of person p in store d
MensajesDe(d, p) == {m \in DOMAIN d.MENSAJE : d.MENSAJE[m].id_persona = p}

\* the last request asked to delete the only message of its person
EliminaUnico ==
  /\ req.route = "/eliminar-mensaje"
  /\ req.id_mensaje \in DOMAIN pre.MENSAJE
  /\ MensajesDe(pre, pre.MENSAJE[req.id_mensaje].id_persona) = {req.id_mensaje}

\* C12: /eliminar-mensaje answers 400 and deletes nothing when the message
\* is the only MENSAJE of its id_persona; a /register answered 201 leaves
\* the new person with a message, and no request takes the last message of
\* a person away, so a registered person never ends with zero messages.
Thm_C12 ==
  /\ EliminaUnico =>
       /\ db = pre
       /\ req.fail = 0 => res.status = 400
  /\ (req.route = "/register" /\ res.status = 201) =>
       \E u \in (DOMAIN db.PERSONA) \ (DOMAIN pre.PERSONA) : MensajesDe(db, u) # {}
  /\ \A p \in Users : MensajesDe(pre, p) # {} => MensajesDe(db, p) # {}

\* the deletion of the only message of a registered person was refused; it
\* was not the first message of the store and another person had one too
Wit_C12 ==
  /\ EliminaUnico
  /\ res.status = 400
  /\ pre.MENSAJE[req.id_mensaje].id_persona \in DOMAIN db.PERSONA
  /\ req.id_mensaje > 1
  /\ \E q \in Users : MensajesDe(db, q) # {} /\ q # pre.MENSAJE[req.id_mensaje].id_persona

\* the keys that referenced message m in store d
ClavesQueReferian(d, m) == {c \in DOMAIN d.CLAVE : d.CLAVE[c].id_mensaje = m}

\* C13: when /eliminar-mensaje answers 200 for message m, m no longer
\* exists, no CLAVE references m, and every CLAVE that referenced m now
\* references another existing MENSAJE of the same id_persona.
Thm_C13 ==
  (req.route = "/eliminar-mensaje" /\ res.status = 200) =>
    /\ req.id_mensaje \in DOMAIN pre.MENSAJE
    /\ req.id_mensaje \notin DOMAIN db.MENSAJE
    /\ ClavesQueReferian(db, req.id_mensaje) = {}
    /\ \A c \in ClavesQueReferian(pre, req.id_mensaje) :
         /\ c \in DOMAIN db.CLAVE
         /\ db.CLAVE[c].id_mensaje \in DOMAIN db.MENSAJE
         /\ db.MENSAJE[db.CLAVE[c].id_mensaje].id_persona
              = pre.MENSAJE[req.id_mensaje].id_persona

\* a message that two keys referenced was deleted while the store also held
\* a message of another person
Wit_C13 ==
  /\ req.route = "/eliminar-mensaje"
  /\ res.status = 200
  /\ Cardinality(ClavesQueReferian(pre, req.id_mensaje)) = 2
  /\ \E m \in DOMAIN db.MENSAJE :
       db.MENSAJE[m].id_persona # pre.MENSAJE[req.id_mensaje].id_persona

(***************************************************************************)
(* Registration                                                            *)
(***************************************************************************)
\* the role id of a tipo_usuario: 1, 2 and 3 as numbers, null for the rest
RolDe(tipo_usuario) ==
  CASE tipo_usuario = JSNum("1") -> "kwLQngxZFsGKG3a3K1xO"
    [] tipo_usuario = JSNum("2") -> "A0oH8hs2ZQzkcoAmiAR4"
    [] tipo_usuario = JSNum("3") -> "i2uxd503bDQo9OrcCZFP"
    [] OTHER -> "null"

\* the persons the last request added
NuevasPersonas == (DOMAIN db.PERSONA) \ (DOMAIN pre.PERSONA)

\* C14: whenever /register answers 201 with uid u, PERSONA/u and PERFIL/u
\* exist, PERFIL/u has estado true and the role id mapped from the
\* request's tipo_usuario (null unless it is 1, 2 or 3), and the request
\* stored one MENSAJE with id_persona = u.
Thm_C14 ==
  (req.route = "/register" /\ res.status = 201) =>
    \E u \in NuevasPersonas :
      /\ NuevasPersonas = {u}
      /\ u \in DOMAIN auth /\ auth[u].email = req.correo
      /\ db.PERSONA[u].correo = req.correo
      /\ u \in DOMAIN db.PERFIL
      /\ db.PERFIL[u].estado = TRUE
      /\ db.PERFIL[u].tipo_usuario = RolDe(req.tipo_usuario)
      /\ Cardinality({m \in (DOMAIN db.MENSAJE) \ (DOMAIN pre.MENSAJE) :
                        db.MENSAJE[m].id_persona = u}) = 1

\* a second person registered, with role 2
Wit_C14 ==
  /\ req.route = "/register"
  /\ res.status = 201
  /\ req.tipo_usuario = JSNum("2")
  /\ \E u \in NuevasPersonas : db.PERFIL[u].tipo_usuario = "A0oH8hs2ZQzkcoAmiAR4"
  /\ Cardinality(DOMAIN db.PERSONA) = 2

\* a person registered with a form-encoded tipo_usuario and got no role
Wit_C14_texto ==
  /\ req.route = "/register"
  /\ res.status = 201
  /\ req.tipo_usuario = JSStr("1")
  /\ \E u \in NuevasPersonas : db.PERFIL[u].tipo_usuario = "null"

(***************************************************************************)
(* Removal of documents                                                    *)
(***************************************************************************)
\* C15: no endpoint physically removes a document: the set of document ids
\* of every collection only grows from one request to the next.
Claim_C15 ==
  \A c \in Collections : (DOMAIN pre[c]) \subseteq (DOMAIN db[c])

(***************************************************************************)
(* The order of the alert fan-out                                          *)
(***************************************************************************)
\* the telephones of the sends of the last request, in the order of the calls
RECURSIVE TelefonosEnviados(_)
TelefonosEnviados(cs) ==
  IF cs = <<>> THEN <<>>
  ELSE (IF Head(cs).svc = "twilio" THEN <<Head(cs).id>> ELSE <<>>)
       \o TelefonosEnviados(Tail(cs))

\* the telephones of the contacts S, in the order of their ids
RECURSIVE TelefonosDe(_)
TelefonosDe(S) ==
  IF S = {} THEN <<>>
  ELSE LET c == CHOOSE x \in S : \A y \in S : x <= y
       IN <<pre.CONTACTO[c].celular>> \o TelefonosDe(S \ {c})

\* sequence a is the beginning of sequence b
EsPrefijo(a, b) == Len(a) <= Len(b) /\ \A i \in 1..Len(a) : a[i] = b[i]

\* the call at position i of the last request stored a document of collection c
Escribio(i, c) ==
  calls[i].svc = "firestore" /\ calls[i].op = "set" /\ calls[i].target = c /\ calls[i].ok

\* C17: in /guardar-ubicacion the UBICACION and the ALERTA are written
\* before the first notification is sent, every contact is attempted at
\* most once, in sequence and without retry, and the first failed send ends
\* the fan-out with a 500 answer while the two documents stay stored.
Thm_C17 ==
  req.route = "/guardar-ubicacion" =>
    /\ \A i \in EnviosHechos :
         /\ \E j, k \in 1..(i - 1) : j < k /\ Escribio(j, "UBICACION") /\ Escribio(k, "ALERTA")
         /\ \A j \in i..Len(calls) : j \in EnviosHechos
    /\ EsPrefijo(TelefonosEnviados(calls), TelefonosDe(Destinatarios(req.id_usuario)))
    /\ \A i \in EnviosHechos :
         ~calls[i].ok =>
           /\ i = Len(calls)
           /\ res.status = 500
           /\ (DOMAIN db.UBICACION) \ (DOMAIN pre.UBICACION) # {}
           /\ \E a \in (DOMAIN db.ALERTA) \ (DOMAIN pre.ALERTA) :
                db.ALERTA[a].id_ubicacion \in (DOMAIN db.UBICACION) \ (DOMAIN pre.UBICACION)

\* the send to the second of two contacts failed after the first had succeeded
Wit_C17 ==
  /\ req.route = "/guardar-ubicacion"
  /\ res.status = 500
  /\ Cardinality(Destinatarios(req.id_usuario)) = 2
  /\ Cardinality(EnviosHechos) = 2
  /\ ~calls[Len(calls)].ok
  /\ \E i \in EnviosHechos : calls[i].ok

\* the send to the first of two contacts failed and the second was not tried
Wit_C17_primero ==
  /\ req.route = "/guardar-ubicacion"
  /\ res.status = 500
  /\ Cardinality(Destinatarios(req.id_usuario)) = 2
  /\ Cardinality(EnviosHechos) = 1
  /\ ~calls[Len(calls)].ok

(***************************************************************************)
(* Overlapping answers to an invitation                                    *)
(***************************************************************************)
\* C18: under any interleaving of overlapping /responder-invitacion
\* requests that accept the same pending invitation, at most one
\* GRUPO_PERSONA document is created for the invitation's id_grupo and
\* id_usuario.
Claim_C18 ==
  \A i \in DOMAIN db.InvitacionGrupo :
    Cardinality({m \in DOMAIN db.GRUPO_PERSONA :
                   /\ db.GRUPO_PERSONA[m].id_grupo = db.InvitacionGrupo[i].id_grupo
                   /\ db.GRUPO_PERSONA[m].id_usuario = db.InvitacionGrupo[i].id_usuario}) <= 1

(***************************************************************************)
(* Overlapping invitations                                                 *)
(***************************************************************************)
\* C19: after any interleaving of overlapping /invitar-usuario requests, at
\* most one pending invitation (estado true, aceptado false) exists for a
\* given pair of id_grupo and invited user.
Claim_C19 ==
  \A i, j \in DOMAIN db.InvitacionGrupo :
    (/\ db.InvitacionGrupo[i].id_grupo = db.InvitacionGrupo[j].id_grupo
     /\ db.InvitacionGrupo[i].id_usuario = db.InvitacionGrupo[j].id_usuario
     /\ db.InvitacionGrupo[i].estado /\ ~db.InvitacionGrupo[i].aceptado
     /\ db.InvitacionGrupo[j].estado /\ ~db.InvitacionGrupo[j].aceptado)
    => i = j

(***************************************************************************)
(* Overlapping deletions of messages                                       *)
(***************************************************************************)
\* no request is between two of its awaits
Quietos == \A p \in Procs : enCurso[p].pc \in {"libre", "respondido"}

\* C20: under any interleaving of overlapping /eliminar-mensaje requests for
\* different messages of the same person, once they have answered at least
\* one MENSAJE of that person remains and no CLAVE references a deleted
\* message.
Claim_C20 ==
  Quietos =>
    /\ \A m \in DOMAIN pre.MENSAJE : MensajesDe(db, pre.MENSAJE[m].id_persona) # {}
    /\ \A c \in DOMAIN db.CLAVE : db.CLAVE[c].id_mensaje \in DOMAIN db.MENSAJE

(***************************************************************************)
(* Overlapping selections                                                  *)
(***************************************************************************)
\* C21: after any interleaving of overlapping
\* /actualizar-ubicacion-seleccion requests, at most one
\* UBICACION_SELECCION record exists per id_persona.
Claim_C21 ==
  \A u \in Users : Cardinality(SeleccionesDe(db, u)) <= 1

(***************************************************************************)
(* Profile updates with an image                                           *)
(***************************************************************************)
\* request p is a profile update that carries an image and passed validation
ConImagen(p) ==
  /\ enCurso[p].pc # "libre"
  /\ enCurso[p].route \in PerfilRutas
  /\ enCurso[p].file
  /\ ~FalsyId(enCurso[p].uid)

\* the responses request p has received
RespuestasDe(p) == IF enCurso[p].pc = "libre" THEN 0 ELSE enCurso[p].respuestas

\* C22: every /update-profile or /editar-perfil request that carries an
\* image eventually receives exactly one response, also when makePublic or
\* the PERSONA update fails after the upload stream has finished.
Claim_C22 ==
  /\ [](\A p \in Procs : RespuestasDe(p) <= 1)
  /\ \A p \in Procs : ConImagen(p) ~> (RespuestasDe(p) = 1)

====
